---- MODULE Spec2Model ----
(***************************************************************************)
(* Envelope encryption and key distribution of the secure drive:           *)
(*   - the storage API (file.controller.js, file model),                   *)
(*   - the KMS key API registry keyDB,                                     *)
(*   - the SecureDrive client (secure-drive-client.js, kms-integration.js, *)
(*     file-encryption.js, crypto.js),                                     *)
(*   - certificate issuance of the PKI server (kms-pki-server/index.ts).   *)
(* Cryptography is symbolic: a ciphertext names the plaintext, key and iv  *)
(* it was made from, a wrapped key names the key, the public key and the   *)
(* OAEP seed; an operation succeeds exactly when the keys match.           *)
(***************************************************************************)
EXTENDS Integers, FiniteSets, Sequences, TLC

(* ------------------------------ bounds --------------------------------- *)
MaxFiles == 1
MaxCalls == 2
MaxDraws == 5
MaxActivations == 3
MaxTime == 3
MaxIssued == 3
MaxKeyPairs == 2
MaxEncryptions == 4
MaxBits == 2

Users == {"alice", "bob", "carol"}
FileIds == 1..MaxFiles
CallIds == 1..MaxCalls
Plaintexts == {<<"pt", 1>>, <<"pt", 2>>}

VARIABLES
    userKeys,   \* KMSIntegrationService.userKeys of each user's client
    keyGens,    \* number of RSA key pairs each user's clients have kept
    kmsKeys,    \* public key the KMS holds for each user (/api/keys/register)
    drawn,      \* number of values drawn from crypto.randomBytes / OAEP seeds
    files,      \* File collection of the storage API, by _id
    disk,       \* uploads/ directory of the storage API, by path
    uploads,    \* number of files multer has stored
    keyDB,      \* KMS key API registry: entries of Map<fileId, KeyRecord>
    certs,      \* certificates the PKI server has issued
    now,        \* Date.now() of the PKI server
    ca,         \* PKI server: ca.key.pem, ca.cert.pem, caPrivateKey, caCertificate
    calls,      \* SecureDriveClientAPI.shareFile calls in flight
    packets,    \* ciphertexts the encryption operations returned, in order
    db,         \* demo KMS store.ts: entries of Map<id, { key, iv, tag }>
    localStorage, \* the "rsaKey" item of each user's browser (cryptoModule.ts)
    resp        \* the last request or client call and its response

vars == <<userKeys, keyGens, kmsKeys, drawn, files, disk, uploads, keyDB,
          certs, now, ca, calls, packets, db, localStorage, resp>>

(* --------------------------- crypto.js --------------------------------- *)
NoKey == <<"none", "-", 0>>
NoData == <<"none", 0>>
\* `RSA key unwrapping failed: ${error.message}`: the message names the
\* reason privateDecrypt gives.
OaepDecodingError == 0
DataGreaterThanModLen == 1
UnsupportedKey == 2
RsaFailure(reason) == <<"RSA key unwrapping failed", reason>>
WrapFailure == RsaFailure(OaepDecodingError)
IsWrapFailure(v) == v[1] = "RSA key unwrapping failed"
AuthenticationFailure == <<"AES-GCM decryption failed", 0>>

\* crypto.generateKeyPair: the n-th pair generated by user u's client.
generateRSAKeyPair(u, n) ==
    [publicKey |-> <<"pub", u, n>>, privateKey |-> <<"priv", u, n>>]

\* The private key is the other half of the public key.
KeyPairMatches(priv, pub) ==
    /\ priv[1] = "priv"
    /\ pub[1] = "pub"
    /\ priv[2] = pub[2]
    /\ priv[3] = pub[3]

\* crypto.randomBytes(32) and crypto.randomBytes(12): the d-th draw.
generateAESKey(d) == <<"aes", d>>
generateIV(d) == <<"iv", d>>

\* subtle.exportKey(format, key): the key in the given format.
exportKey(format, key) == <<format, key>>

\* localStorage.getItem of an item that was never set.
NoItem == exportKey("null", NoKey)

bufferToBase64(buffer) == <<"base64", buffer>>
base64ToBuffer(base64) == base64[2]

NoBlob == [data |-> NoData, key |-> NoData, iv |-> NoData]

\* A buffer that is not encrypted under any key.
Plain(data) == [data |-> data, key |-> NoData, iv |-> NoData]
NoTag == [key |-> NoData, iv |-> NoData, data |-> NoData]

\* Buffer.from(data) of a string: its bytes; a Buffer is taken as it is.
BufferFrom(data) == IF data[1] = "str" THEN <<"pt", data[2]>> ELSE data

\* encryptWithAESGCM that leaves the iv out of the cipher.
encryptWithAESGCM_FixedIv(data, key, iv) ==
    LET dataBuffer == BufferFrom(data)
    IN [encryptedData |-> [data |-> dataBuffer, key |-> key, iv |-> NoData],
        authTag |-> [key |-> key, iv |-> NoData, data |-> dataBuffer],
        iv |-> iv]

\* aes-256-gcm: ciphertext and the 16-byte tag bound to key, iv and data.
encryptWithAESGCM(data, key, iv) ==
    LET dataBuffer == BufferFrom(data)
    IN [encryptedData |-> [data |-> dataBuffer, key |-> key, iv |-> iv],
        authTag |-> [key |-> key, iv |-> iv, data |-> dataBuffer],
        iv |-> iv]

\* decryptWithAESGCM that returns what decipher.update gave without final().
decryptWithAESGCM_Unverified(encryptedData, key, iv, authTag) ==
    IF /\ encryptedData.key = key
       /\ encryptedData.iv = iv
       /\ key # NoData
    THEN encryptedData.data
    ELSE AuthenticationFailure

\* decipher.final() throws unless the tag is the tag of the ciphertext under
\* key and iv; the catch rethrows, nothing of decipher.update is returned.
decryptWithAESGCM(encryptedData, key, iv, authTag) ==
    IF /\ encryptedData.key = key
       /\ encryptedData.iv = iv
       /\ authTag = [key |-> key, iv |-> iv, data |-> encryptedData.data]
       /\ key # NoData
    THEN encryptedData.data
    ELSE AuthenticationFailure

NoWrapped == [key |-> NoData, pub |-> NoKey, seed |-> 0]

\* RSA-OAEP publicEncrypt: randomized by the OAEP seed.
wrapKeyWithRSA(aesKey, publicKeyPem, seed) ==
    [key |-> aesKey, pub |-> publicKeyPem, seed |-> seed]

\* Bytes longer than the modulus of any key.
TooLong == [key |-> <<"too long", 0>>, pub |-> NoKey, seed |-> 0]

\* A block of modulus length that is the OAEP encoding of nothing.
BadPadding(wrappedKey) == [wrappedKey EXCEPT !.pub = NoKey]

\* unwrapKeyWithRSA that returns whatever the decryption gives.
unwrapKeyWithRSA_Unpadded(wrappedKey, privateKeyPem) ==
    IF privateKeyPem[1] # "priv" THEN RsaFailure(UnsupportedKey)
    ELSE IF wrappedKey = TooLong THEN RsaFailure(DataGreaterThanModLen)
    ELSE wrappedKey.key

\* RSA-OAEP privateDecrypt: throws unless the key can be read, the block
\* fits the modulus and decodes under the private key; the catch rethrows
\* with the message of the error it caught.
unwrapKeyWithRSA(wrappedKey, privateKeyPem) ==
    IF privateKeyPem[1] # "priv" THEN RsaFailure(UnsupportedKey)
    ELSE IF wrappedKey = TooLong THEN RsaFailure(DataGreaterThanModLen)
    ELSE IF KeyPairMatches(privateKeyPem, wrappedKey.pub) THEN wrappedKey.key
    ELSE WrapFailure

(* ------------------------ file-encryption.js --------------------------- *)
NoMeta ==
    [iv |-> bufferToBase64(NoData), tag |-> bufferToBase64(NoTag),
     encryptedKey |-> bufferToBase64(NoWrapped),
     algorithm |-> "undefined", keyEncryption |-> "undefined"]

\* encryptFile that keeps the key and iv of its first call.
encryptFile_CachedKey(fileData, publicKeyPem, d) ==
    LET aesKey == generateAESKey(1)
        iv == generateIV(2)
        enc == encryptWithAESGCM(fileData, aesKey, iv)
        wrappedKey == wrapKeyWithRSA(aesKey, publicKeyPem, d + 3)
    IN [encryptedData |-> enc.encryptedData,
        encryptionMetadata |->
            [iv |-> bufferToBase64(iv),
             tag |-> bufferToBase64(enc.authTag),
             encryptedKey |-> bufferToBase64(wrappedKey),
             algorithm |-> "AES-256-GCM",
             keyEncryption |-> "RSA-OAEP"]]

\* encryptFile: fresh key (draw d+1), fresh iv (d+2), OAEP seed (d+3).
encryptFile(fileData, publicKeyPem, d) ==
    LET aesKey == generateAESKey(d + 1)
        iv == generateIV(d + 2)
        enc == encryptWithAESGCM(fileData, aesKey, iv)
        wrappedKey == wrapKeyWithRSA(aesKey, publicKeyPem, d + 3)
    IN [encryptedData |-> enc.encryptedData,
        encryptionMetadata |->
            [iv |-> bufferToBase64(iv),
             tag |-> bufferToBase64(enc.authTag),
             encryptedKey |-> bufferToBase64(wrappedKey),
             algorithm |-> "AES-256-GCM",
             keyEncryption |-> "RSA-OAEP"]]

\* decryptFile: unwrap the key, then decrypt; any failure is thrown.
decryptFile(encryptedData, metadata, privateKeyPem) ==
    LET iv == base64ToBuffer(metadata.iv)
        authTag == base64ToBuffer(metadata.tag)
        wrappedKey == base64ToBuffer(metadata.encryptedKey)
        aesKey == unwrapKeyWithRSA(wrappedKey, privateKeyPem)
    IN IF IsWrapFailure(aesKey)
       THEN aesKey
       ELSE decryptWithAESGCM(encryptedData, aesKey, iv, authTag)

(* ------------------- crypto module: aes.js, rsa.js --------------------- *)
\* subtle.generateKey and crypto.getRandomValues: the d-th draw.
generateAesKey(d) == <<"aes", d>>
randomIv(d) == <<"iv", d>>

GCM_TAG_BYTES == 16

\* The bytes of the 128-bit tag of data under key and iv.
tagBytes(key, iv, data) ==
    [i \in 1..GCM_TAG_BYTES |->
        [key |-> key, iv |-> iv, data |-> data, byte |-> i]]

\* subtle.encrypt with AES-GCM: one array, the ciphertext (one element
\* names it whole) followed by the GCM_TAG_BYTES bytes of the tag.
aesGcmEncrypt(key, plain, iv) ==
    <<[data |-> plain, key |-> key, iv |-> iv]>> \o tagBytes(key, iv, plain)

CryptoModuleError == <<"AES-GCM verification failed", 0>>

\* subtle.decrypt with AES-GCM and tagLength 128: the last GCM_TAG_BYTES
\* bytes are the tag of what precedes them; any failure becomes a
\* CryptoModuleError.
aesGcmDecrypt(key, cipherPlusTag, iv) ==
    LET n == Len(cipherPlusTag)
        cipher == SubSeq(cipherPlusTag, 1, n - GCM_TAG_BYTES)
        tag == SubSeq(cipherPlusTag, n - GCM_TAG_BYTES + 1, n)
    IN IF /\ Len(cipher) = 1
          /\ "byte" \notin DOMAIN cipher[1]
          /\ cipher[1].key = key
          /\ cipher[1].iv = iv
          /\ tag = tagBytes(key, iv, cipher[1].data)
          /\ key # NoData
       THEN cipher[1].data
       ELSE CryptoModuleError

\* Array.prototype.slice(start, end) of zero-based indexes, a negative index
\* counting from the end.
slice(arr, start, end) ==
    LET from == IF start < 0 THEN Len(arr) + start ELSE start
        to == IF end < 0 THEN Len(arr) + end ELSE end
    IN SubSeq(arr, (IF from < 0 THEN 0 ELSE from) + 1,
              IF to > Len(arr) THEN Len(arr) ELSE to)

\* concatUint8(a, b)
concatUint8(a, b) == a \o b

\* subtle.wrapKey("raw", aesKey, rsaPub, RSA-OAEP)
wrapAesKey(aesKey, rsaPub, seed) ==
    [key |-> aesKey, pub |-> rsaPub, seed |-> seed]

\* subtle.unwrapKey rejects with an OperationError that carries no detail.
OperationError == <<"OperationError", 0>>

\* subtle.unwrapKey("raw", wrapped, rsaPriv, RSA-OAEP, AES-GCM 256)
unwrapAesKey(wrapped, rsaPriv) ==
    IF /\ wrapped # TooLong
       /\ KeyPairMatches(rsaPriv, wrapped.pub)
    THEN wrapped.key
    ELSE OperationError

TAG_BYTES == 16

\* index.ts encryptFile: session key (draw d+1), iv (d+2), OAEP seed (d+3);
\* the packet carries ciphertext and tag apart.
packetEncryptFile(fileBuf, rsaPub, d) ==
    LET aesKey == generateAesKey(d + 1)
        iv == randomIv(d + 2)
        cipherPlusTag == aesGcmEncrypt(aesKey, fileBuf, iv)
        wrappedKey == wrapAesKey(aesKey, rsaPub, d + 3)
    IN [cipherText |-> slice(cipherPlusTag, 0, -TAG_BYTES), iv |-> iv,
        tag |-> slice(cipherPlusTag, -TAG_BYTES, Len(cipherPlusTag)),
        wrappedKey |-> wrappedKey, algo |-> "AES-GCM"]

\* index.ts decryptFile that joins the tag before the ciphertext.
packetDecryptFile_TagFirst(packet, rsaPriv) ==
    LET aesKey == unwrapAesKey(packet.wrappedKey, rsaPriv)
        cipherPlusTag == concatUint8(packet.tag, packet.cipherText)
    IN IF aesKey = OperationError
       THEN OperationError
       ELSE aesGcmDecrypt(aesKey, cipherPlusTag, packet.iv)

\* index.ts decryptFile: unwrap the session key, join ciphertext and tag,
\* verify and decrypt; a failure of either step is thrown.
packetDecryptFile(packet, rsaPriv) ==
    LET aesKey == unwrapAesKey(packet.wrappedKey, rsaPriv)
        cipherPlusTag == concatUint8(packet.cipherText, packet.tag)
    IN IF aesKey = OperationError
       THEN OperationError
       ELSE aesGcmDecrypt(aesKey, cipherPlusTag, packet.iv)

(* ------------------- browser client: lib/cryptoModule.ts --------------- *)
\* encryptFile(file, allowedRoles): key (draw d+1), iv (d+2), the key wrapped
\* (seed d+3) for the public key of the caller's own certificate.
browserEncryptFile(file, allowedRoles, selfCertPubKey, d) ==
    LET aesKey == generateAesKey(d + 1)
        iv == randomIv(d + 2)
        cipherBuf == aesGcmEncrypt(aesKey, file, iv)
        wrappedKey == wrapAesKey(aesKey, selfCertPubKey, d + 3)
    IN [blob |-> cipherBuf,
        meta |-> [iv |-> bufferToBase64(iv), tagLength |-> 128,
                  wrappedKey |-> bufferToBase64(wrappedKey),
                  roles |-> allowedRoles]]

(* ------------------- demo KMS: crypto.ts, store.ts --------------------- *)
\* encrypt(buffer): key crypto.randomBytes(32) (draw d+1), iv randomBytes(12)
\* (draw d+2); the raw key is part of the result.
encrypt(buffer, d) ==
    LET key == generateAESKey(d + 1)
        iv == generateIV(d + 2)
        enc == encryptWithAESGCM(buffer, key, iv)
    IN [key |-> key, iv |-> iv, tag |-> enc.authTag,
        encrypted |-> enc.encryptedData]

\* randomUUID(): the d-th draw.
randomUUID(d) == <<"uuid", d>>

\* save(rec): db.set(id, rec) under a new random id.
save(map, rec, d) ==
    LET id == randomUUID(d)
    IN [id |-> id,
        db |-> {e \in map : e.id # id}
               \cup {[id |-> id, key |-> rec.key, iv |-> rec.iv, tag |-> rec.tag]}]

\* get that answers with whatever the store holds.
get_AnyRecord(map, id) == map

\* get(id): the records under the id (none when undefined).
get(map, id) == {e \in map : e.id = id}

\* remove(id): db.delete(id).
remove(map, id) == {e \in map : e.id # id}

DecipherFailure == <<"unable to authenticate data", 0>>

\* decrypt(encrypted, key, iv, tag): decipher.final() throws unless the tag
\* is the tag of the ciphertext under key and iv; nothing catches it.
decrypt(encrypted, key, iv, tag) ==
    IF /\ encrypted.key = key
       /\ encrypted.iv = iv
       /\ tag = [key |-> key, iv |-> iv, data |-> encrypted.data]
    THEN encrypted.data
    ELSE DecipherFailure

(* ------------------- storage API: file.controller.js ------------------- *)
NoFile ==
    [exists |-> FALSE, owner |-> "-", readers |-> {}, writers |-> {},
     meta |-> NoMeta, path |-> 0]

Reply(status, message, data) ==
    [status |-> status, message |-> message, data |-> data]

NoReply == Reply(0, "", NoBlob)

\* file.model.js: the schema stores iv, tag, encryptedKey and algorithm of
\* the encryption metadata; a field it does not declare is not stored.
fileSchema(meta) ==
    [iv |-> meta.iv, tag |-> meta.tag, encryptedKey |-> meta.encryptedKey,
     algorithm |-> IF meta.algorithm = "undefined" THEN "AES-GCM"
                   ELSE meta.algorithm,
     keyEncryption |-> "undefined"]

\* uploadFile that creates the record with an empty readers list.
uploadFile_NoReaders(u, hasFile, encryptedData, meta, dbOk) ==
    IF ~hasFile
    THEN [res |-> Reply(400, "No file uploaded", NoBlob),
          files |-> files, disk |-> disk, uploads |-> uploads]
    ELSE IF dbOk
    THEN [res |-> Reply(201, "File uploaded successfully", NoBlob),
          files |-> [files EXCEPT ![uploads + 1] =
              [exists |-> TRUE, owner |-> u, readers |-> {}, writers |-> {u},
               meta |-> fileSchema(meta), path |-> uploads + 1]],
          disk |-> [disk EXCEPT ![uploads + 1] = encryptedData],
          uploads |-> uploads + 1]
    ELSE [res |-> Reply(500, "File upload failed", NoBlob),
          files |-> files, disk |-> [disk EXCEPT ![uploads + 1] = encryptedData],
          uploads |-> uploads + 1]

\* uploadFile: multer has stored the file (when there is one) before the
\* handler runs; dbOk = File.create succeeds.
uploadFile(u, hasFile, encryptedData, meta, dbOk) ==
    IF ~hasFile
    THEN [res |-> Reply(400, "No file uploaded", NoBlob),
          files |-> files, disk |-> disk, uploads |-> uploads]
    ELSE LET id == uploads + 1
             stored == [disk EXCEPT ![id] = encryptedData]
         IN IF dbOk
            THEN [res |-> Reply(201, "File uploaded successfully", NoBlob),
                  files |-> [files EXCEPT ![id] =
                      [exists |-> TRUE, owner |-> u,
                       readers |-> {u}, writers |-> {u},
                       meta |-> fileSchema(meta), path |-> id]],
                  disk |-> stored, uploads |-> id]
            ELSE [res |-> Reply(500, "File upload failed", NoBlob),
                  files |-> files, disk |-> stored, uploads |-> id]

\* getFileList: the files whose owner, readers or writers name the user.
getFileList(u) ==
    {f \in FileIds :
        /\ files[f].exists
        /\ \/ files[f].owner = u
           \/ u \in files[f].readers
           \/ u \in files[f].writers}

\* downloadFile with the writers test of the permission check left out.
downloadFile_WithoutWriters(u, f, dbOk) ==
    IF ~dbOk
    THEN Reply(500, "File download failed", NoBlob)
    ELSE IF ~files[f].exists
    THEN Reply(404, "File not found", NoBlob)
    ELSE IF files[f].owner # u /\ u \notin files[f].readers
    THEN Reply(403, "No permission to access this file", NoBlob)
    ELSE Reply(200, "download", disk[files[f].path])

\* downloadFile: dbOk = File.findById succeeds.
downloadFile(u, f, dbOk) ==
    IF ~dbOk
    THEN Reply(500, "File download failed", NoBlob)
    ELSE IF ~files[f].exists
    THEN Reply(404, "File not found", NoBlob)
    ELSE LET userHasAccess ==
                 \/ files[f].owner = u
                 \/ u \in files[f].readers
                 \/ u \in files[f].writers
         IN IF ~userHasAccess
            THEN Reply(403, "No permission to access this file", NoBlob)
            ELSE Reply(200, "download", disk[files[f].path])

\* A field of a JSON request body: {} when the body does not carry it.
BodyField(body, name) ==
    IF name \in DOMAIN body THEN {body[name]} ELSE {}

\* updateFilePermissions without the test of the owner.
updateFilePermissions_ByAnyone(u, f, body, dbOk) ==
    IF ~dbOk
    THEN [res |-> Reply(500, "Failed to update file permissions", NoBlob),
          files |-> files]
    ELSE IF ~files[f].exists
    THEN [res |-> Reply(404, "File not found", NoBlob), files |-> files]
    ELSE [res |-> Reply(200, "File permissions updated", NoBlob),
          files |-> [files EXCEPT
              ![f].readers = IF BodyField(body, "readers") # {}
                             THEN body.readers ELSE @,
              ![f].writers = IF BodyField(body, "writers") # {}
                             THEN body.writers ELSE @]]

\* updateFilePermissions: dbOk = File.findById and file.save succeed.
updateFilePermissions(u, f, body, dbOk) ==
    IF ~dbOk
    THEN [res |-> Reply(500, "Failed to update file permissions", NoBlob),
          files |-> files]
    ELSE IF ~files[f].exists
    THEN [res |-> Reply(404, "File not found", NoBlob), files |-> files]
    ELSE IF files[f].owner # u
    THEN [res |-> Reply(403, "Only file owner can update permissions", NoBlob),
          files |-> files]
    ELSE LET readers == IF BodyField(body, "readers") # {}
                        THEN body.readers ELSE files[f].readers
             writers == IF BodyField(body, "writers") # {}
                        THEN body.writers ELSE files[f].writers
         IN [res |-> Reply(200, "File permissions updated", NoBlob),
             files |-> [files EXCEPT ![f].readers = readers,
                                     ![f].writers = writers]]

\* deleteFile that lets the users in writers delete as the owner does.
deleteFile_ByWriters(u, f, dbOk, unlinkOk, deleteOk) ==
    IF ~dbOk
    THEN [res |-> Reply(500, "File deletion failed", NoBlob),
          files |-> files, disk |-> disk]
    ELSE IF ~files[f].exists
    THEN [res |-> Reply(404, "File not found", NoBlob),
          files |-> files, disk |-> disk]
    ELSE IF u \notin files[f].writers
    THEN [res |-> Reply(403, "Only file owner can delete the file", NoBlob),
          files |-> files, disk |-> disk]
    ELSE IF ~unlinkOk
    THEN [res |-> Reply(500, "File deletion failed", NoBlob),
          files |-> files, disk |-> disk]
    ELSE IF ~deleteOk
    THEN [res |-> Reply(500, "File deletion failed", NoBlob),
          files |-> files, disk |-> [disk EXCEPT ![files[f].path] = NoBlob]]
    ELSE [res |-> Reply(200, "File deleted successfully", NoBlob),
          files |-> [files EXCEPT ![f] = NoFile],
          disk |-> [disk EXCEPT ![files[f].path] = NoBlob]]

\* deleteFile: dbOk = File.findById succeeds, unlinkOk = fs.unlink succeeds,
\* deleteOk = File.deleteOne succeeds; the file is unlinked before the
\* record is deleted.
deleteFile(u, f, dbOk, unlinkOk, deleteOk) ==
    IF ~dbOk
    THEN [res |-> Reply(500, "File deletion failed", NoBlob),
          files |-> files, disk |-> disk]
    ELSE IF ~files[f].exists
    THEN [res |-> Reply(404, "File not found", NoBlob),
          files |-> files, disk |-> disk]
    ELSE IF files[f].owner # u
    THEN [res |-> Reply(403, "Only file owner can delete the file", NoBlob),
          files |-> files, disk |-> disk]
    ELSE IF ~unlinkOk
    THEN [res |-> Reply(500, "File deletion failed", NoBlob),
          files |-> files, disk |-> disk]
    ELSE IF ~deleteOk
    THEN [res |-> Reply(500, "File deletion failed", NoBlob),
          files |-> files, disk |-> [disk EXCEPT ![files[f].path] = NoBlob]]
    ELSE [res |-> Reply(200, "File deleted successfully", NoBlob),
          files |-> [files EXCEPT ![f] = NoFile],
          disk |-> [disk EXCEPT ![files[f].path] = NoBlob]]

(* ------------------ KMS key API: keyDB and its handler ----------------- *)
\* A registry that appends a record and keeps the entry the key had.
keyDBSet_Append(map, fileId, record) ==
    map \cup {[fileId |-> fileId, wrappedKey |-> record.wrappedKey,
               roles |-> record.roles]}

\* Map.set(fileId, record): the entry of the key is replaced.
keyDBSet(map, fileId, record) ==
    {e \in map : e.fileId # fileId}
        \cup {[fileId |-> fileId, wrappedKey |-> record.wrappedKey,
               roles |-> record.roles]}

\* Map.get(fileId): the entries of the key (none when undefined).
keyDBGet(map, fileId) == {e \in map : e.fileId = fileId}

\* handler, action "register": keyDB.set(fileId, { wrappedKey, roles }).
register(fileId, body) ==
    [res |-> Reply(200, "ok", [ok |-> TRUE]),
     keyDB |-> keyDBSet(keyDB, fileId,
                        [wrappedKey |-> body.wrappedKey, roles |-> body.roles])]

\* handler, action "unwrap": 404 without a record, 403 for a role the record
\* does not list, else the wrapped key.
unwrap(fileId, role) ==
    LET recs == keyDBGet(keyDB, fileId)
    IN IF recs = {}
       THEN Reply(404, "missing key", [err |-> "missing key"])
       ELSE LET rec == CHOOSE e \in recs : TRUE
            IN IF role \notin rec.roles
               THEN Reply(403, "role denied", [err |-> "role denied"])
               ELSE Reply(200, "wrappedKey", [wrappedKey |-> rec.wrappedKey])

\* rbac.ts
SECRET == "demo-only"
NoToken == [role |-> "-", exp |-> 0, secret |-> "-"]

\* jwt.verify(tok, SECRET): throws for a missing token, a token signed with
\* another secret and a token whose exp has passed.
jwtVerify(tok, secret, t) ==
    /\ tok # NoToken
    /\ tok.secret = secret
    /\ t < tok.exp

\* requireRole(role)(req, res, next): 401 when the token does not verify,
\* 403 when payload.role is not the role asked for, else next().
requireRole(role, tok, t) ==
    IF ~jwtVerify(tok, SECRET, t)
    THEN [next |-> FALSE, res |-> Reply(401, "unauth", [err |-> "unauth"])]
    ELSE IF tok.role # role
    THEN [next |-> FALSE, res |-> Reply(403, "forbidden", [err |-> "forbidden"])]
    ELSE [next |-> TRUE, res |-> NoReply]

\* KeyRegistry.get(fileId, identity): the wrapped keys the registry holds for
\* the identity on the file.
RegistryGet(map, fileId, identity) ==
    {e.wrappedKey : e \in {x \in keyDBGet(map, fileId) : identity \in x.roles}}

\* KeyRegistry.put(fileId, identity, record) on the registry's register.
RegistryPut(fileId, identity, wrappedKey) ==
    register(fileId, [wrappedKey |-> wrappedKey, roles |-> {identity}])

(* ------------------- demo KMS: index.ts handlers ----------------------- *)
\* GET /key/:keyId: 404 without a record, else the raw key in base64.
kmsGetKey(keyId) ==
    LET recs == get(db, keyId)
    IN IF recs = {}
       THEN Reply(404, "key not found", NoBlob)
       ELSE LET rec == CHOOSE e \in recs : TRUE
            IN Reply(200, "key", [key |-> bufferToBase64(rec.key)])

\* POST /decrypt: 404 without a record, else the plaintext of the cipher
\* under the record's key; an error thrown by decrypt is answered 500.
kmsDecrypt(body) ==
    LET recs == get(db, body.keyId)
    IN IF recs = {}
       THEN Reply(404, "key not found", NoBlob)
       ELSE LET rec == CHOOSE e \in recs : TRUE
                plain == decrypt(base64ToBuffer(body.cipher), rec.key,
                                 base64ToBuffer(body.iv),
                                 base64ToBuffer(body.tag))
            IN IF plain = DecipherFailure
               THEN Reply(500, "Internal Server Error", NoBlob)
               ELSE Reply(200, "octet-stream", Plain(plain))

(* ------------- KMS key directory used by kms-integration.js ------------ *)
NoKeys == [keyId |-> 0, publicKey |-> NoKey, privateKey |-> NoKey]

\* POST /api/keys/init: the keys the KMS holds for the user.
KmsInit(u, up) ==
    IF up /\ kmsKeys[u] # NoKey
    THEN [ok |-> TRUE,
          keys |-> [keyId |-> 1, publicKey |-> kmsKeys[u], privateKey |-> NoKey]]
    ELSE [ok |-> FALSE, keys |-> NoKeys]

\* POST /api/keys/register: the KMS stores the user's public key.
KmsRegisterKey(u, publicKey, up) ==
    IF up
    THEN [ok |-> TRUE, keyId |-> 1, kmsKeys |-> [kmsKeys EXCEPT ![u] = publicKey]]
    ELSE [ok |-> FALSE, keyId |-> 0, kmsKeys |-> kmsKeys]

\* GET /api/keys/public/:userId
KmsPublicKey(u, up) ==
    IF up /\ kmsKeys[u] # NoKey
    THEN [ok |-> TRUE, publicKey |-> kmsKeys[u]]
    ELSE [ok |-> FALSE, publicKey |-> NoKey]

\* POST /api/keys/files/:fileId/share: the record for the target identity is
\* put into the registry.
KmsShare(fileId, body, up) ==
    IF up
    THEN [ok |-> TRUE,
          keyDB |-> RegistryPut(fileId, body.targetUserId,
                                body.encryptionMetadata.encryptedKey).keyDB]
    ELSE [ok |-> FALSE, keyDB |-> keyDB]

(* ------------------- PKI server: kms-pki-server/index.ts --------------- *)
YearMs == 2

\* pki.rsa.generateKeyPair: the n-th root key pair the server generates.
caKeyPair(n) == generateRSAKeyPair("MyRootCA", n)

\* forge signature over a certificate or request body with a private key.
Sign(body, privateKey) == [body |-> body, by |-> privateKey]

\* csr.verify(): the request is signed by the private half of its own key.
csrVerify(csr) ==
    /\ csr.signature.body = [subject |-> csr.subject, publicKey |-> csr.publicKey]
    /\ KeyPairMatches(csr.signature.by, csr.publicKey)

NoCert ==
    [serialNumber |-> "", publicKey |-> NoKey, subject |-> "-", issuer |-> "-",
     notBefore |-> 0, notAfter |-> 0, cA |-> FALSE]

\* No certificate: caCertificate before initCA, a file that does not exist.
NoCertificate == [tbs |-> NoCert, signature |-> Sign(NoCert, NoKey)]

\* File contents that do not parse as PEM.
GarbageKey == <<"garbage", "-", 0>>
GarbageCertificate ==
    [tbs |-> [NoCert EXCEPT !.subject = "garbage"],
     signature |-> Sign(NoCert, NoKey)]

\* The self-signed root certificate initCA makes at time t for a key pair.
rootCertificate(keys, t) ==
    LET cert == [serialNumber |-> "01", publicKey |-> keys.publicKey,
                 subject |-> "MyRootCA", issuer |-> "MyRootCA",
                 notBefore |-> t, notAfter |-> t + 10 * YearMs, cA |-> TRUE]
    IN [tbs |-> cert, signature |-> Sign(cert, keys.privateKey)]

\* The server process before its first start.
NoCA ==
    [state |-> "Uninitialized", keyFile |-> NoKey, certFile |-> NoCertificate,
     privateKey |-> NoKey, certificate |-> NoCertificate, gens |-> 0,
     activations |-> 0]

\* initCA that generates a root key pair on every start.
initCA_AlwaysGenerates(t, certWriteOk) ==
    LET keys == caKeyPair(ca.gens + 1)
        cert == rootCertificate(keys, t)
    IN [ca EXCEPT !.state = "Ready", !.keyFile = keys.privateKey,
                  !.certFile = cert, !.privateKey = keys.privateKey,
                  !.certificate = cert, !.gens = @ + 1,
                  !.activations = @ + 1]

\* initCA at time t.  Both files exist: they are read and parsed (a file
\* that does not parse throws, and the process ends).  Else a root key pair
\* and certificate are generated and written, the key file first;
\* certWriteOk = the second writeFileSync succeeds (else it throws, and the
\* process ends with the key file written).
initCA(t, certWriteOk) ==
    IF ca.keyFile # NoKey /\ ca.certFile # NoCertificate
    THEN IF ca.keyFile = GarbageKey \/ ca.certFile = GarbageCertificate
         THEN [ca EXCEPT !.state = "Failed", !.privateKey = NoKey,
                         !.certificate = NoCertificate,
                         !.activations = @ + 1]
         ELSE [ca EXCEPT !.state = "Ready", !.privateKey = ca.keyFile,
                         !.certificate = ca.certFile,
                         !.activations = @ + 1]
    ELSE LET keys == caKeyPair(ca.gens + 1)
             cert == rootCertificate(keys, t)
         IN IF certWriteOk
            THEN [ca EXCEPT !.state = "Ready", !.keyFile = keys.privateKey,
                            !.certFile = cert, !.privateKey = keys.privateKey,
                            !.certificate = cert, !.gens = @ + 1,
                            !.activations = @ + 1]
            ELSE [ca EXCEPT !.state = "Failed", !.keyFile = keys.privateKey,
                            !.privateKey = NoKey,
                            !.certificate = NoCertificate, !.gens = @ + 1,
                            !.activations = @ + 1]

\* GET /api/pki/ca-cert
caCert == ca.certificate

\* POST /api/pki/register that issues without csr.verify().
pkiRegister_Unverified(csr, t) ==
    LET userCert ==
            [serialNumber |-> ToString(t), publicKey |-> csr.publicKey,
             subject |-> csr.subject, issuer |-> "MyRootCA",
             notBefore |-> t, notAfter |-> t + YearMs, cA |-> FALSE]
    IN [status |-> 200, error |-> "",
        certificate |-> {[tbs |-> userCert,
                          signature |-> Sign(userCert, ca.privateKey)]}]

\* POST /api/pki/register that names the issuer as the certificate's subject.
pkiRegister_IssuerAsSubject(csr, t) ==
    IF ~csrVerify(csr)
    THEN [status |-> 400, error |-> "CSR verification failed", certificate |-> {}]
    ELSE LET userCert ==
                 [serialNumber |-> ToString(t), publicKey |-> csr.publicKey,
                  subject |-> "MyRootCA", issuer |-> "MyRootCA",
                  notBefore |-> t, notAfter |-> t + YearMs, cA |-> FALSE]
         IN [status |-> 200, error |-> "",
             certificate |-> {[tbs |-> userCert,
                               signature |-> Sign(userCert, ca.privateKey)]}]

\* POST /api/pki/register at time t (Date.now()).
pkiRegister(csr, t) ==
    IF ~csrVerify(csr)
    THEN [status |-> 400, error |-> "CSR verification failed", certificate |-> {}]
    ELSE IF csr.publicKey = NoKey
    THEN [status |-> 400, error |-> "CSR missing publicKey", certificate |-> {}]
    ELSE LET userCert ==
                 [serialNumber |-> ToString(t), publicKey |-> csr.publicKey,
                  subject |-> csr.subject,
                  issuer |-> ca.certificate.tbs.subject,
                  notBefore |-> t, notAfter |-> t + YearMs, cA |-> FALSE]
         IN [status |-> 200, error |-> "",
             certificate |-> {[tbs |-> userCert,
                               signature |-> Sign(userCert, ca.privateKey)]}]

\* CertificateAuthority.verify: signature under the key of the CA
\* certificate, validity window.
VerifyCertificate(cert, t) ==
    /\ cert.signature.body = cert.tbs
    /\ KeyPairMatches(cert.signature.by, caCert.tbs.publicKey)
    /\ cert.tbs.notBefore <= t
    /\ t <= cert.tbs.notAfter

(* --------------- client: kms-integration.js, secure-drive-client.js ---- *)
\* shareFileAccess that sends the caller's own wrapped key on to the target.
shareFileAccess_SameKey(privateKey, targetPublicKey, encryptionMetadata, seed) ==
    IF IsWrapFailure(unwrapKeyWithRSA(
                         base64ToBuffer(encryptionMetadata.encryptedKey),
                         privateKey))
    THEN [ok |-> FALSE, targetEncryptionMetadata |-> NoMeta]
    ELSE [ok |-> TRUE, targetEncryptionMetadata |-> encryptionMetadata]

\* shareFileAccess that draws a new iv for the target's metadata.
shareFileAccess_FreshIv(privateKey, targetPublicKey, encryptionMetadata, seed) ==
    LET aesKey == unwrapKeyWithRSA(
                      base64ToBuffer(encryptionMetadata.encryptedKey), privateKey)
    IN IF IsWrapFailure(aesKey)
       THEN [ok |-> FALSE, targetEncryptionMetadata |-> NoMeta]
       ELSE [ok |-> TRUE,
             targetEncryptionMetadata |->
                 [encryptionMetadata EXCEPT
                     !.iv = bufferToBase64(generateIV(seed)),
                     !.encryptedKey = bufferToBase64(
                         wrapKeyWithRSA(aesKey, targetPublicKey, seed))]]

\* shareFileAccess, lines 159-176: unwrap the file key with the caller's
\* private key, wrap it again for the target, copy the other metadata.
shareFileAccess(privateKey, targetPublicKey, encryptionMetadata, seed) ==
    LET wrappedKey == base64ToBuffer(encryptionMetadata.encryptedKey)
        aesKey == unwrapKeyWithRSA(wrappedKey, privateKey)
        reWrappedKey == wrapKeyWithRSA(aesKey, targetPublicKey, seed)
    IN IF IsWrapFailure(aesKey)
       THEN [ok |-> FALSE, targetEncryptionMetadata |-> NoMeta]
       ELSE [ok |-> TRUE,
             targetEncryptionMetadata |->
                 [iv |-> encryptionMetadata.iv,
                  tag |-> encryptionMetadata.tag,
                  encryptedKey |-> bufferToBase64(reWrappedKey),
                  algorithm |-> encryptionMetadata.algorithm,
                  keyEncryption |-> encryptionMetadata.keyEncryption]]

\* shareFile, lines 216-226: the body of the PUT .../permissions request.
PermissionRequestBody(targetUserId, permission) ==
    [targetUserId |-> targetUserId, permission |-> permission]

IdleCall ==
    [pc |-> "idle", sharer |-> "-", file |-> 0, target |-> "-",
     permission |-> "-", meta |-> NoMeta, publicKey |-> NoKey,
     targetMeta |-> NoMeta]

\* A call that has thrown: its locals are gone, pc = "error".
FailedCall == [IdleCall EXCEPT !.pc = "error"]

\* A request without a body.
NoBody == [empty |-> TRUE]

Request(op, u, f, body, res) ==
    [op |-> op, user |-> u, file |-> f, body |-> body, res |-> res]

Init ==
    /\ userKeys = [u \in Users |-> NoKeys]
    /\ keyGens = [u \in Users |-> 0]
    /\ kmsKeys = [u \in Users |-> NoKey]
    /\ drawn = 0
    /\ files = [f \in FileIds |-> NoFile]
    /\ disk = [f \in FileIds |-> NoBlob]
    /\ uploads = 0
    /\ keyDB = {}
    /\ certs = {}
    /\ now = 1
    /\ ca = NoCA
    /\ packets = <<>>
    /\ db = {}
    /\ localStorage = [u \in Users |-> NoItem]
    /\ calls = [c \in CallIds |-> IdleCall]
    /\ resp = Request("-", "-", 0, NoBody, NoReply)

(* ------------------------- storage API requests ------------------------ *)
TestBlob == encryptWithAESGCM(<<"pt", 1>>, generateAESKey(0), generateIV(0)).encryptedData

ReaderLists == {{}, {"bob"}}

\* POST /api/files/upload
Upload(u, hasFile, dbOk) ==
    /\ hasFile => uploads < MaxFiles
    /\ LET r == uploadFile(u, hasFile, TestBlob, NoMeta, dbOk)
       IN /\ files' = r.files
          /\ disk' = r.disk
          /\ uploads' = r.uploads
          /\ resp' = Request("upload", u, 0, [file |-> hasFile], r.res)
    /\ UNCHANGED <<userKeys, keyGens, kmsKeys, drawn, keyDB, certs, now, ca,
                   calls, packets, localStorage, db>>

\* GET /api/files/download/:fileId
Download(u, f, dbOk) ==
    /\ resp' = Request("download", u, f, NoBody, downloadFile(u, f, dbOk))
    /\ UNCHANGED <<userKeys, keyGens, kmsKeys, drawn, files, disk, uploads,
                   keyDB, certs, now, ca, calls, packets, localStorage, db>>

\* PUT /api/files/:fileId/permissions
UpdatePermissions(u, f, body, dbOk) ==
    /\ LET r == updateFilePermissions(u, f, body, dbOk)
       IN /\ files' = r.files
          /\ resp' = Request("permissions", u, f, body, r.res)
    /\ UNCHANGED <<userKeys, keyGens, kmsKeys, drawn, disk, uploads, keyDB,
                   certs, now, ca, calls, packets, localStorage, db>>

PermissionBodies ==
    [readers : ReaderLists, writers : ReaderLists]
        \cup [readers : ReaderLists] \cup [writers : ReaderLists]
        \cup {PermissionRequestBody("bob", "read")}

NextStorage ==
    \/ \E u \in Users, hasFile \in BOOLEAN, dbOk \in BOOLEAN :
           Upload(u, hasFile, dbOk)
    \/ \E u \in Users, f \in FileIds, dbOk \in BOOLEAN : Download(u, f, dbOk)
    \/ \E u \in Users, f \in FileIds, body \in PermissionBodies,
          dbOk \in BOOLEAN : UpdatePermissions(u, f, body, dbOk)

SpecStorage == Init /\ [][NextStorage]_vars

\* DELETE /api/files/:fileId
Delete(u, f, dbOk, unlinkOk, deleteOk) ==
    /\ LET r == deleteFile(u, f, dbOk, unlinkOk, deleteOk)
       IN /\ files' = r.files
          /\ disk' = r.disk
          /\ resp' = Request("delete", u, f, NoBody, r.res)
    /\ UNCHANGED <<userKeys, keyGens, kmsKeys, drawn, uploads, keyDB, certs,
                   now, ca, calls, packets, localStorage, db>>

\* The call of deleteFile that throws, if any.
DeleteFailures == {"none", "File.findById", "fs.unlink", "File.deleteOne"}

SharingBodies ==
    {[readers |-> {"bob"}, writers |-> {"bob"}], [readers |-> {}],
     [writers |-> {"carol"}]}

\* Uploads, permission updates and deletes of the storage API.
NextFiles ==
    \/ \E u \in Users, hasFile \in BOOLEAN, dbOk \in BOOLEAN :
           Upload(u, hasFile, dbOk)
    \/ \E u \in Users, f \in FileIds, body \in SharingBodies :
           UpdatePermissions(u, f, body, TRUE)
    \/ \E u \in Users, f \in FileIds, fail \in DeleteFailures :
           Delete(u, f, fail # "File.findById", fail # "fs.unlink",
                  fail # "File.deleteOne")

SpecFiles == Init /\ [][NextFiles]_vars

(* ------------------------ KMS key API requests ------------------------- *)
WrappedKeys ==
    {bufferToBase64(wrapKeyWithRSA(generateAESKey(1),
                                   generateRSAKeyPair(u, 1).publicKey, seed)) :
        u \in Users, seed \in 1..3}

RoleLists == {{u} : u \in Users} \cup {{"alice", "bob"}, {"bob", "carol"}}

\* POST .../register/:fileId
Register(f, body) ==
    /\ LET r == register(f, body)
       IN /\ keyDB' = r.keyDB
          /\ resp' = Request("register", "-", f, body, r.res)
    /\ UNCHANGED <<userKeys, keyGens, kmsKeys, drawn, files, disk, uploads,
                   certs, now, ca, calls, packets, localStorage, db>>

\* GET .../unwrap/:fileId with a token of the role
Unwrap(f, role) ==
    /\ resp' = Request("unwrap", role, f, NoBody, unwrap(f, role))
    /\ UNCHANGED <<userKeys, keyGens, kmsKeys, drawn, files, disk, uploads,
                   keyDB, certs, now, ca, calls, packets, localStorage, db>>

NextRegistry ==
    \/ \E f \in FileIds, body \in [wrappedKey : WrappedKeys, roles : RoleLists] :
           Register(f, body)
    \/ \E f \in FileIds, role \in Users : Unwrap(f, role)

SpecRegistry == Init /\ [][NextRegistry]_vars

(* ----------------------------- client calls ---------------------------- *)
\* initialize(userId) of a client that holds no keys yet: initializeUserKeys,
\* and on any error generateAndRegisterKeyPair (a pair whose registration
\* fails is dropped with the error).
Initialize(u, initUp, registerUp) ==
    /\ userKeys[u] = NoKeys
    /\ LET init == KmsInit(u, initUp)
       IN IF init.ok
          THEN /\ userKeys' = [userKeys EXCEPT ![u] = init.keys]
               /\ UNCHANGED <<keyGens, kmsKeys>>
          ELSE LET keyPair == generateRSAKeyPair(u, keyGens[u] + 1)
                   r == KmsRegisterKey(u, keyPair.publicKey, registerUp)
               IN /\ kmsKeys' = r.kmsKeys
                  /\ keyGens' = IF r.ok THEN [keyGens EXCEPT ![u] = @ + 1]
                                ELSE keyGens
                  /\ userKeys' =
                         IF r.ok
                         THEN [userKeys EXCEPT ![u] =
                                  [keyId |-> r.keyId,
                                   publicKey |-> keyPair.publicKey,
                                   privateKey |-> keyPair.privateKey]]
                         ELSE userKeys
    /\ UNCHANGED <<drawn, files, disk, uploads, keyDB, certs, now, ca, calls,
                   resp, packets, localStorage, db>>

\* uploadFile(filePath): encrypt for the user's own public key and upload.
ClientUpload(u, fileData, dbOk) ==
    /\ userKeys[u] # NoKeys
    /\ userKeys[u].publicKey # NoKey
    /\ uploads < MaxFiles
    /\ drawn + 3 <= MaxDraws
    /\ LET enc == encryptFile(fileData, userKeys[u].publicKey, drawn)
           r == uploadFile(u, TRUE, enc.encryptedData, enc.encryptionMetadata, dbOk)
       IN /\ files' = r.files
          /\ disk' = r.disk
          /\ uploads' = r.uploads
    /\ drawn' = drawn + 3
    /\ UNCHANGED <<userKeys, keyGens, kmsKeys, keyDB, certs, now, ca, calls,
                   resp, packets, localStorage, db>>

\* downloadFile(fileId): list the files, download, decrypt with the user's
\* private key.
ClientDownload(u, f, listOk, dbOk) ==
    /\ userKeys[u] # NoKeys
    /\ LET r == downloadFile(u, f, dbOk)
           result ==
               IF ~listOk THEN Reply(500, "Failed to get file list", NoBlob)
               ELSE IF f \notin getFileList(u)
               THEN Reply(404, "File with ID not found", NoBlob)
               ELSE IF r.status # 200
               THEN Reply(r.status, "File download failed", NoBlob)
               ELSE LET data == decryptFile(r.data, files[f].meta,
                                            userKeys[u].privateKey)
                    IN IF IsWrapFailure(data) \/ data = AuthenticationFailure
                       THEN Reply(0, "File decryption failed", Plain(data))
                       ELSE Reply(200, "success", Plain(data))
       IN resp' = Request("client.downloadFile", u, f, NoBody, result)
    /\ UNCHANGED <<userKeys, keyGens, kmsKeys, drawn, files, disk, uploads,
                   keyDB, certs, now, ca, calls, packets, localStorage, db>>

\* shareFile, lines 199-205: list the files and find the file to share
\* with another user.
ShareListFiles(c, s, f, t, p, listOk) ==
    /\ calls[c].pc = "idle"
    /\ t # s
    /\ \A d \in CallIds : d < c => calls[d].pc # "idle"
    /\ userKeys[s] # NoKeys
    /\ calls' = [calls EXCEPT ![c] =
           IF listOk /\ f \in getFileList(s)
           THEN [IdleCall EXCEPT
                    !.pc = "pubkey", !.sharer = s, !.file = f, !.target = t,
                    !.permission = p, !.meta = files[f].meta]
           ELSE FailedCall]
    /\ UNCHANGED <<userKeys, keyGens, kmsKeys, drawn, files, disk, uploads,
                   keyDB, certs, now, ca, resp, packets, localStorage, db>>

\* shareFileAccess, line 157: getUserPublicKey(targetUserId).
ShareGetPublicKey(c, up) ==
    /\ calls[c].pc = "pubkey"
    /\ LET r == KmsPublicKey(calls[c].target, up)
       IN calls' = [calls EXCEPT ![c] =
              IF r.ok
              THEN [@ EXCEPT !.pc = "rewrap", !.publicKey = r.publicKey]
              ELSE FailedCall]
    /\ UNCHANGED <<userKeys, keyGens, kmsKeys, drawn, files, disk, uploads,
                   keyDB, certs, now, ca, resp, packets, localStorage, db>>

\* shareFileAccess, lines 159-196: rewrap the key and register the share.
ShareRegister(c, up) ==
    /\ calls[c].pc = "rewrap"
    /\ drawn < MaxDraws
    /\ LET local == shareFileAccess(userKeys[calls[c].sharer].privateKey,
                                    calls[c].publicKey, calls[c].meta, drawn + 1)
           r == KmsShare(calls[c].file,
                         [targetUserId |-> calls[c].target,
                          permission |-> calls[c].permission,
                          encryptionMetadata |-> local.targetEncryptionMetadata],
                         up)
       IN IF ~local.ok
          THEN /\ calls' = [calls EXCEPT ![c] = FailedCall]
               /\ UNCHANGED keyDB
          ELSE /\ calls' = [calls EXCEPT ![c] =
                      IF r.ok
                      THEN [@ EXCEPT
                               !.pc = "perm",
                               !.targetMeta = local.targetEncryptionMetadata]
                      ELSE FailedCall]
               /\ keyDB' = r.keyDB
    /\ drawn' = drawn + 1
    /\ UNCHANGED <<userKeys, keyGens, kmsKeys, files, disk, uploads, certs,
                   now, ca, resp, packets, localStorage, db>>

\* shareFile, lines 215-241: update the permissions on the storage API.
SharePermissions(c, dbOk) ==
    /\ calls[c].pc = "perm"
    /\ LET r == updateFilePermissions(
                    calls[c].sharer, calls[c].file,
                    PermissionRequestBody(calls[c].target, calls[c].permission),
                    dbOk)
       IN /\ files' = r.files
          /\ calls' = [calls EXCEPT ![c] =
                 IF r.res.status = 200
                 THEN [@ EXCEPT !.pc = "done"]
                 ELSE [FailedCall EXCEPT
                          !.file = calls[c].file,
                          !.target = calls[c].target,
                          !.targetMeta = calls[c].targetMeta]]
    /\ UNCHANGED <<userKeys, keyGens, kmsKeys, drawn, disk, uploads, keyDB,
                   certs, now, ca, resp, packets, localStorage, db>>

\* POST /api/pki/register with a request of user u signed by signer's key.
IssueCertificate(u, signer) ==
    /\ ca.state = "Ready"
    /\ userKeys[u] # NoKeys
    /\ LET body == [subject |-> u, publicKey |-> userKeys[u].publicKey]
           csr == [subject |-> u, publicKey |-> userKeys[u].publicKey,
                   signature |-> Sign(body, userKeys[signer].privateKey)]
       IN certs' = certs \cup pkiRegister(csr, now).certificate
    /\ UNCHANGED <<userKeys, keyGens, kmsKeys, drawn, files, disk, uploads,
                   keyDB, now, ca, calls, resp, packets, localStorage, db>>

Next ==
    \/ \E u \in Users, initUp \in BOOLEAN, registerUp \in BOOLEAN :
           Initialize(u, initUp, registerUp)
    \/ \E u \in Users, fileData \in Plaintexts, dbOk \in BOOLEAN :
           ClientUpload(u, fileData, dbOk)
    \/ \E c \in CallIds, s \in Users, f \in FileIds, t \in Users,
          p \in {"read", "write"}, listOk \in BOOLEAN :
           ShareListFiles(c, s, f, t, p, listOk)
    \/ \E c \in CallIds, up \in BOOLEAN : ShareGetPublicKey(c, up)
    \/ \E c \in CallIds, up \in BOOLEAN : ShareRegister(c, up)
    \/ \E c \in CallIds, dbOk \in BOOLEAN : SharePermissions(c, dbOk)

Spec == Init /\ [][Next]_vars

(* ------------------ certificates beside the share flow ----------------- *)
\* Start of the PKI server process: initCA(), then app.listen.
Activate(certWriteOk) ==
    /\ ca.state \in {"Uninitialized", "Stopped", "Failed"}
    /\ ca.activations < MaxActivations
    /\ ca' = initCA(now, certWriteOk)
    /\ UNCHANGED <<userKeys, keyGens, kmsKeys, drawn, files, disk, uploads,
                   keyDB, certs, now, calls, resp, packets, localStorage, db>>

NextCert ==
    \/ Activate(TRUE)
    \/ \E u \in Users : Initialize(u, TRUE, TRUE)
    \/ \E u \in Users, fileData \in Plaintexts : ClientUpload(u, fileData, TRUE)
    \/ \E c \in CallIds, s \in Users, f \in FileIds, t \in Users,
          p \in {"read", "write"} : ShareListFiles(c, s, f, t, p, TRUE)
    \/ \E c \in CallIds : ShareGetPublicKey(c, TRUE)
    \/ \E c \in CallIds : ShareRegister(c, TRUE)
    \/ \E c \in CallIds : SharePermissions(c, TRUE)
    \/ \E u \in Users, signer \in Users : IssueCertificate(u, signer)

SpecCert == Init /\ [][NextCert]_vars

(* ---------------------------- the PKI server -------------------------- *)
\* End of the server process: caPrivateKey and caCertificate are gone.
Stop ==
    /\ ca.state = "Ready"
    /\ ca' = [ca EXCEPT !.state = "Stopped", !.privateKey = NoKey,
                        !.certificate = NoCertificate]
    /\ UNCHANGED <<userKeys, keyGens, kmsKeys, drawn, files, disk, uploads,
                   keyDB, certs, now, calls, resp, packets, localStorage, db>>

\* A millisecond passes.
Tick ==
    /\ now < MaxTime
    /\ now' = now + 1
    /\ UNCHANGED <<userKeys, keyGens, kmsKeys, drawn, files, disk, uploads,
                   keyDB, certs, ca, calls, resp, packets, localStorage, db>>

\* One of the persisted files is lost or damaged while the server is down.
LoseFile(file, garbage) ==
    /\ ca.state = "Stopped"
    /\ ca' = IF file = "ca.key.pem"
             THEN [ca EXCEPT !.keyFile =
                      IF garbage THEN GarbageKey ELSE NoKey]
             ELSE [ca EXCEPT !.certFile =
                      IF garbage THEN GarbageCertificate ELSE NoCertificate]
    /\ ca' # ca
    /\ UNCHANGED <<userKeys, keyGens, kmsKeys, drawn, files, disk, uploads,
                   keyDB, certs, now, calls, resp, packets, localStorage, db>>

\* The key pair of the user's client in the requests below.
UserKey(u) == generateRSAKeyPair(u, 1)

\* Certificate signing requests: well-formed ones, and ones signed with
\* another key, signed over another subject, or without a public key.
Csrs ==
    {LET pk == IF withKey THEN UserKey(u).publicKey ELSE NoKey
         sb == IF ownSubject THEN u ELSE "carol"
     IN [subject |-> u, publicKey |-> pk,
         signature |-> Sign([subject |-> sb, publicKey |-> pk],
                            UserKey(by).privateKey)] :
        u \in {"alice", "bob"}, by \in {"alice", "bob"},
        ownSubject \in BOOLEAN, withKey \in BOOLEAN}

ValidCsrs == {csr \in Csrs : csrVerify(csr) /\ csr.publicKey # NoKey}

\* POST /api/pki/register with the request csr.
PkiRegister(csr) ==
    /\ ca.state = "Ready"
    /\ Cardinality(certs) < MaxIssued
    /\ LET r == pkiRegister(csr, now)
       IN /\ certs' = certs \cup r.certificate
          /\ resp' = Request("pki.register", csr.subject, 0, csr,
                             Reply(r.status, r.error, NoBlob))
    /\ UNCHANGED <<userKeys, keyGens, kmsKeys, drawn, files, disk, uploads,
                   keyDB, now, ca, calls, packets, localStorage, db>>

NextPKI ==
    \/ Activate(TRUE)
    \/ Stop
    \/ Tick
    \/ \E csr \in Csrs : PkiRegister(csr)

SpecPKI == Init /\ [][NextPKI]_vars

\* The PKI server with faults: a failing write of ca.cert.pem, lost or
\* damaged files.
NextCAFaults ==
    \/ \E certWriteOk \in BOOLEAN : Activate(certWriteOk)
    \/ Stop
    \/ Tick
    \/ \E csr \in ValidCsrs : PkiRegister(csr)
    \/ \E file \in {"ca.key.pem", "ca.cert.pem"}, garbage \in BOOLEAN :
           LoseFile(file, garbage)

SpecCAFaults == Init /\ [][NextCAFaults]_vars

(* ------------------- downloads beside the share flow ------------------- *)
NextDownload ==
    \/ \E u \in Users : Initialize(u, TRUE, TRUE)
    \/ \E u \in Users, fileData \in Plaintexts : ClientUpload(u, fileData, TRUE)
    \/ \E c \in CallIds, s \in Users, f \in FileIds, t \in Users,
          p \in {"read", "write"} : ShareListFiles(c, s, f, t, p, TRUE)
    \/ \E c \in CallIds : ShareGetPublicKey(c, TRUE)
    \/ \E c \in CallIds : ShareRegister(c, TRUE)
    \/ \E c \in CallIds : SharePermissions(c, TRUE)
    \/ \E u \in Users, f \in FileIds, body \in [readers : {{"bob", "carol"}}] :
           UpdatePermissions(u, f, body, TRUE)
    \/ \E u \in Users, f \in FileIds : ClientDownload(u, f, TRUE, TRUE)

SpecDownload == Init /\ [][NextDownload]_vars

(* ---------------------------- encryptions ------------------------------ *)
\* fileEncryptionAPI.encryptFile(fileData, publicKeyPem)
EncryptFile(u, fileData) ==
    /\ Len(packets) < MaxEncryptions
    /\ LET r == encryptFile(fileData, generateRSAKeyPair(u, 1).publicKey, drawn)
       IN packets' = Append(packets,
                       [by |-> "file-encryption.js", cipher |-> r.encryptedData])
    /\ drawn' = drawn + 3
    /\ UNCHANGED <<userKeys, keyGens, kmsKeys, files, disk, uploads, keyDB,
                   certs, now, ca, calls, db, localStorage, resp>>

\* encryptFile(fileBuf, rsaPub) of the crypto module (index.ts)
PacketEncryptFile(u, fileBuf) ==
    /\ Len(packets) < MaxEncryptions
    /\ LET r == packetEncryptFile(fileBuf, generateRSAKeyPair(u, 1).publicKey,
                                  drawn)
       IN packets' = Append(packets,
                            [by |-> "index.ts", cipher |-> r.cipherText[1]])
    /\ drawn' = drawn + 3
    /\ UNCHANGED <<userKeys, keyGens, kmsKeys, files, disk, uploads, keyDB,
                   certs, now, ca, calls, db, localStorage, resp>>

\* encryptFile(file, allowedRoles) of the browser client
BrowserEncryptFile(u, file) ==
    /\ Len(packets) < MaxEncryptions
    /\ LET r == browserEncryptFile(file, {u},
                                   generateRSAKeyPair(u, 1).publicKey, drawn)
       IN packets' = Append(packets,
                            [by |-> "cryptoModule.ts", cipher |-> r.blob[1]])
    /\ drawn' = drawn + 3
    /\ UNCHANGED <<userKeys, keyGens, kmsKeys, files, disk, uploads, keyDB,
                   certs, now, ca, calls, db, localStorage, resp>>

\* POST /encrypt of the demo KMS: 400 without a file; otherwise encrypt the
\* upload, save { key, iv, tag } and answer keyId, iv, tag and cipher.
KmsEncrypt(hasFile, buffer) ==
    /\ Len(packets) < MaxEncryptions
    /\ IF ~hasFile
       THEN /\ resp' = Request("encrypt", "-", 0, [file |-> FALSE],
                               Reply(400, "file missing", NoBlob))
            /\ UNCHANGED <<packets, db, drawn>>
       ELSE LET r == encrypt(buffer, drawn)
                s == save(db, [key |-> r.key, iv |-> r.iv, tag |-> r.tag],
                          drawn + 3)
            IN /\ db' = s.db
               /\ packets' = Append(packets,
                                [by |-> "kms-server", cipher |-> r.encrypted])
               /\ drawn' = drawn + 3
               /\ resp' = Request("encrypt", "-", 0, [file |-> TRUE],
                                  [status |-> 200, keyId |-> s.id,
                                   iv |-> bufferToBase64(r.iv),
                                   tag |-> bufferToBase64(r.tag),
                                   cipher |-> bufferToBase64(r.encrypted)])
    /\ UNCHANGED <<userKeys, keyGens, kmsKeys, files, disk, uploads, keyDB,
                   certs, now, ca, calls, localStorage>>

NextEncrypt ==
    \/ \E u \in {"alice"}, fileData \in Plaintexts : EncryptFile(u, fileData)
    \/ \E u \in {"alice"}, fileBuf \in Plaintexts : PacketEncryptFile(u, fileBuf)
    \/ \E u \in {"alice"}, file \in Plaintexts : BrowserEncryptFile(u, file)
    \/ \E hasFile \in BOOLEAN, buffer \in Plaintexts : KmsEncrypt(hasFile, buffer)

SpecEncrypt == Init /\ [][NextEncrypt]_vars

(* ------------------------- clients after a login ----------------------- *)
\* new SecureDriveClientAPI(config): a client whose kmsService.userKeys is
\* null; the KMS keeps what it holds for the user.
NewClient(u) ==
    /\ userKeys[u] # NoKeys
    /\ userKeys' = [userKeys EXCEPT ![u] = NoKeys]
    /\ UNCHANGED <<keyGens, kmsKeys, drawn, files, disk, uploads, keyDB,
                   certs, now, ca, calls, packets, db, localStorage, resp>>

\* initialize(userId) after a login, for a user who has generated fewer
\* than MaxKeyPairs pairs.
Login(u, initUp, registerUp) ==
    /\ keyGens[u] < MaxKeyPairs
    /\ Initialize(u, initUp, registerUp)

NextLogin ==
    \/ \E u \in Users, initUp \in BOOLEAN, registerUp \in BOOLEAN :
           Login(u, initUp, registerUp)
    \/ \E u \in Users : NewClient(u)

SpecLogin == Init /\ [][NextLogin]_vars

(* ------------------------- the key API behind its guard ---------------- *)
\* Tokens a request may carry: of every role claim and of the role '*',
\* expiring at every time, signed with SECRET or with another secret.
Tokens ==
    {NoToken} \cup [role : Users \cup {"*"}, exp : 1..(MaxTime + 1),
                    secret : {SECRET, "other"}]

\* An unwrap request passing middleware = requireRole("*") and, after
\* next(), the handler with req.user = payload.
GuardedUnwrap(tok, f) ==
    /\ LET g == requireRole("*", tok, now)
       IN resp' = Request("guarded.unwrap", tok.role, f, [token |-> tok],
                          IF g.next THEN unwrap(f, tok.role) ELSE g.res)
    /\ UNCHANGED <<userKeys, keyGens, kmsKeys, drawn, files, disk, uploads,
                   keyDB, certs, now, ca, calls, packets, db, localStorage>>

NextGuard ==
    \/ \E tok \in Tokens, f \in FileIds : GuardedUnwrap(tok, f)
    \/ \E f \in FileIds,
          body \in [wrappedKey : {bufferToBase64(wrapKeyWithRSA(
                                     generateAESKey(1),
                                     generateRSAKeyPair("bob", 1).publicKey,
                                     1))},
                    roles : {{"bob"}, {"*"}}] : Register(f, body)
    \/ Tick

SpecGuard == Init /\ [][NextGuard]_vars

(* ------------------------- lookups of key records ---------------------- *)
\* Ids a caller may ask for: those save has given out and others.
KeyIds == {randomUUID(d) : d \in 1..(3 * MaxEncryptions)}

\* GET /key/:keyId
KmsGetKey(keyId) ==
    /\ resp' = Request("key", "-", 0, [keyId |-> keyId], kmsGetKey(keyId))
    /\ UNCHANGED <<userKeys, keyGens, kmsKeys, drawn, files, disk, uploads,
                   keyDB, certs, now, ca, calls, packets, db, localStorage>>

\* POST /decrypt with the iv, tag and cipher of the i-th encryption.
KmsDecrypt(keyId, i) ==
    /\ i \in DOMAIN packets
    /\ LET cipher == packets[i].cipher
           body == [keyId |-> keyId, iv |-> bufferToBase64(cipher.iv),
                    tag |-> bufferToBase64([key |-> cipher.key,
                                            iv |-> cipher.iv,
                                            data |-> cipher.data]),
                    cipher |-> bufferToBase64(cipher)]
       IN resp' = Request("decrypt", "-", 0, body, kmsDecrypt(body))
    /\ UNCHANGED <<userKeys, keyGens, kmsKeys, drawn, files, disk, uploads,
                   keyDB, certs, now, ca, calls, packets, db, localStorage>>

\* remove(id) of the store.
StoreRemove(id) ==
    /\ db' = remove(db, id)
    /\ resp' = Request("remove", "-", 0, [keyId |-> id], NoReply)
    /\ UNCHANGED <<userKeys, keyGens, kmsKeys, drawn, files, disk, uploads,
                   keyDB, certs, now, ca, calls, packets, localStorage>>

NextLookup ==
    \/ \E hasFile \in BOOLEAN : KmsEncrypt(hasFile, <<"pt", 1>>)
    \/ \E keyId \in KeyIds : KmsGetKey(keyId)
    \/ \E keyId \in KeyIds, i \in 1..MaxEncryptions : KmsDecrypt(keyId, i)
    \/ \E id \in KeyIds : StoreRemove(id)
    \/ \E f \in FileIds,
          body \in [wrappedKey : {bufferToBase64(wrapKeyWithRSA(
                                     generateAESKey(1),
                                     generateRSAKeyPair("bob", 1).publicKey,
                                     1))},
                    roles : {{"bob"}}] : Register(f, body)
    \/ \E f \in FileIds, role \in {"alice", "bob"} : Unwrap(f, role)

SpecLookup == Init /\ [][NextLookup]_vars

(* ------------------- primitives applied to given inputs ---------------- *)
\* A buffer of MaxBits bits is named by its value; a string by its bytes.
Buffers == {<<"pt", n>> : n \in 0..(2^MaxBits - 1)}
Strings == {<<"str", n>> : n \in 0..(2^MaxBits - 1)}
AesKeys == {generateAESKey(d) : d \in 1..2}
Ivs == {generateIV(d) : d \in 1..2}

\* The value n with bit b inverted.
FlipBit(n, b) == IF (n \div 2^b) % 2 = 1 THEN n - 2^b ELSE n + 2^b

\* What is done to ciphertext and tag between encryption and decryption.
\* In counter mode a ciphertext with bit b inverted is the ciphertext of the
\* plaintext with bit b inverted; a tag with a bit inverted is no tag of any
\* message.
NoTamper == [part |-> "none", bit |-> 0]
Tamperings ==
    {NoTamper} \cup {[part |-> p, bit |-> b] :
                        p \in {"ciphertext", "tag"}, b \in 0..(MaxBits - 1)}

TamperCipher(cipher, t) ==
    IF t.part = "ciphertext"
    THEN [cipher EXCEPT !.data = <<"pt", FlipBit(cipher.data[2], t.bit)>>]
    ELSE cipher

TamperTag(tag, t) ==
    IF t.part = "tag" THEN [tag EXCEPT !.data = <<"flipped", t.bit>>] ELSE tag

\* cryptoModule.encryptWithAESGCM, then cryptoModule.decryptWithAESGCM of
\* what arrives, with the same key and iv.
AesGcm(plain, key, iv, t) ==
    /\ LET enc == encryptWithAESGCM(plain, key, iv)
           out == decryptWithAESGCM(TamperCipher(enc.encryptedData, t), key,
                                    iv, TamperTag(enc.authTag, t))
       IN resp' = Request("decryptWithAESGCM", "-", 0,
                          [plain |-> plain, key |-> key, iv |-> iv, t |-> t],
                          [out |-> out])
    /\ UNCHANGED <<userKeys, keyGens, kmsKeys, drawn, files, disk, uploads,
                   keyDB, certs, now, ca, calls, packets, db, localStorage>>

\* aesGcmEncrypt, then aesGcmDecrypt of what arrives (aes.js).
SubtleAesGcm(plain, key, iv, t) ==
    /\ LET enc == aesGcmEncrypt(key, plain, iv)
           arrived == [enc EXCEPT ![1] = TamperCipher(@, t),
                                  ![Len(enc)] = TamperTag(@, t)]
           out == aesGcmDecrypt(key, arrived, iv)
       IN resp' = Request("aesGcmDecrypt", "-", 0,
                          [plain |-> plain, key |-> key, iv |-> iv, t |-> t],
                          [out |-> out])
    /\ UNCHANGED <<userKeys, keyGens, kmsKeys, drawn, files, disk, uploads,
                   keyDB, certs, now, ca, calls, packets, db, localStorage>>

NextAes ==
    \/ \E plain \in Buffers \cup Strings, key \in AesKeys, iv \in Ivs,
          t \in Tamperings : AesGcm(plain, key, iv, t)
    \/ \E plain \in Buffers, key \in AesKeys, iv \in Ivs, t \in Tamperings :
           SubtleAesGcm(plain, key, iv, t)

SpecAes == Init /\ [][NextAes]_vars

\* Key pairs the callers hold; NoKey is a client that holds no private key.
RsaPublicKeys == {generateRSAKeyPair(u, 1).publicKey : u \in Users}
RsaPrivateKeys == {generateRSAKeyPair(u, 1).privateKey : u \in Users}
OaepSeeds == 1..2

\* What happens to the wrapped key before it is unwrapped.
Damages == {"none", "padding", "length"}
Damaged(wrappedKey, damage) ==
    CASE damage = "none" -> wrappedKey
      [] damage = "padding" -> BadPadding(wrappedKey)
      [] damage = "length" -> TooLong

\* cryptoModule.wrapKeyWithRSA, then cryptoModule.unwrapKeyWithRSA.
WrapUnwrap(aesKey, pub, priv, seed, damage) ==
    /\ LET wrappedKey == Damaged(wrapKeyWithRSA(aesKey, pub, seed), damage)
       IN resp' = Request("unwrapKeyWithRSA", "-", 0,
                          [aesKey |-> aesKey, pub |-> pub, priv |-> priv,
                           seed |-> seed, damage |-> damage],
                          [out |-> unwrapKeyWithRSA(wrappedKey, priv)])
    /\ UNCHANGED <<userKeys, keyGens, kmsKeys, drawn, files, disk, uploads,
                   keyDB, certs, now, ca, calls, packets, db, localStorage>>

\* wrapAesKey, then unwrapAesKey (rsa.js).
SubtleWrapUnwrap(aesKey, pub, priv, seed, damage) ==
    /\ LET wrapped == Damaged(wrapAesKey(aesKey, pub, seed), damage)
       IN resp' = Request("unwrapAesKey", "-", 0,
                          [aesKey |-> aesKey, pub |-> pub, priv |-> priv,
                           seed |-> seed, damage |-> damage],
                          [out |-> unwrapAesKey(wrapped, priv)])
    /\ UNCHANGED <<userKeys, keyGens, kmsKeys, drawn, files, disk, uploads,
                   keyDB, certs, now, ca, calls, packets, db, localStorage>>

NextWrap ==
    \/ \E aesKey \in AesKeys, pub \in RsaPublicKeys,
          priv \in RsaPrivateKeys \cup {NoKey}, seed \in OaepSeeds,
          damage \in Damages : WrapUnwrap(aesKey, pub, priv, seed, damage)
    \/ \E aesKey \in AesKeys, pub \in RsaPublicKeys, priv \in RsaPrivateKeys,
          seed \in OaepSeeds, damage \in Damages :
           SubtleWrapUnwrap(aesKey, pub, priv, seed, damage)

SpecWrap == Init /\ [][NextWrap]_vars

\* fileEncryptionAPI.encryptFile, then fileEncryptionAPI.decryptFile.
FileRoundTrip(fileData, pub, priv, d) ==
    /\ LET enc == encryptFile(fileData, pub, d)
           out == decryptFile(enc.encryptedData, enc.encryptionMetadata, priv)
       IN resp' = Request("decryptFile", "-", 0,
                          [plain |-> fileData, pub |-> pub, priv |-> priv,
                           d |-> d],
                          [out |-> out])
    /\ UNCHANGED <<userKeys, keyGens, kmsKeys, drawn, files, disk, uploads,
                   keyDB, certs, now, ca, calls, packets, db, localStorage>>

\* encryptFile, then decryptFile of the crypto module (index.ts).
PacketRoundTrip(fileBuf, pub, priv, d) ==
    /\ LET packet == packetEncryptFile(fileBuf, pub, d)
           out == packetDecryptFile(packet, priv)
       IN resp' = Request("packetDecryptFile", "-", 0,
                          [plain |-> fileBuf, pub |-> pub, priv |-> priv,
                           d |-> d],
                          [out |-> out])
    /\ UNCHANGED <<userKeys, keyGens, kmsKeys, drawn, files, disk, uploads,
                   keyDB, certs, now, ca, calls, packets, db, localStorage>>

NextRoundTrip ==
    \/ \E fileData \in Buffers \cup Strings, pub \in RsaPublicKeys,
          priv \in RsaPrivateKeys \cup {NoKey}, d \in 0..1 :
           FileRoundTrip(fileData, pub, priv, d)
    \/ \E fileBuf \in Buffers, pub \in RsaPublicKeys,
          priv \in RsaPrivateKeys, d \in 0..1 :
           PacketRoundTrip(fileBuf, pub, priv, d)

SpecRoundTrip == Init /\ [][NextRoundTrip]_vars

(* ------------------------- creating key pairs -------------------------- *)
\* KMSIntegrationService.generateAndRegisterKeyPair: a new pair whose public
\* key is posted to /api/keys/register; the pair is kept when the KMS accepts.
GenerateAndRegisterKeyPair(u, up) ==
    /\ keyGens[u] < MaxKeyPairs
    /\ LET keyPair == generateRSAKeyPair(u, keyGens[u] + 1)
           body == [publicKey |-> keyPair.publicKey]
           r == KmsRegisterKey(u, body.publicKey, up)
       IN /\ kmsKeys' = r.kmsKeys
          /\ keyGens' = IF r.ok THEN [keyGens EXCEPT ![u] = @ + 1] ELSE keyGens
          /\ userKeys' =
                 IF r.ok
                 THEN [userKeys EXCEPT ![u] =
                          [keyId |-> r.keyId,
                           publicKey |-> keyPair.publicKey,
                           privateKey |-> keyPair.privateKey]]
                 ELSE userKeys
          /\ resp' = Request("generateAndRegisterKeyPair", u, 0, body,
                             IF r.ok THEN Reply(200, "", NoBlob)
                             ELSE Reply(503, "", NoBlob))
    /\ UNCHANGED <<drawn, files, disk, uploads, keyDB, certs, now, ca, calls,
                   packets, localStorage, db>>

\* loadOrCreateKeyPair of the browser client: without a stored "rsaKey" it
\* generates a pair, exports the private key as a JWK, stores the JWK and
\* posts { jwk } to /api/pki/register; the response is not read.  With a
\* stored item it sends nothing.
LoadOrCreateKeyPair(u, up) ==
    /\ localStorage[u] = NoItem
    /\ keyGens[u] < MaxKeyPairs
    /\ LET keyPair == generateRSAKeyPair(u, keyGens[u] + 1)
           jwk == exportKey("jwk", keyPair.privateKey)
       IN /\ localStorage' = [localStorage EXCEPT ![u] = jwk]
          /\ keyGens' = [keyGens EXCEPT ![u] = @ + 1]
          /\ resp' = Request("loadOrCreateKeyPair", u, 0, [jwk |-> jwk],
                             IF up THEN Reply(200, "", NoBlob)
                             ELSE Reply(503, "", NoBlob))
    /\ UNCHANGED <<userKeys, kmsKeys, drawn, files, disk, uploads, keyDB,
                   certs, now, ca, calls, packets, db>>

NextKeys ==
    \/ \E u \in Users, up \in BOOLEAN : GenerateAndRegisterKeyPair(u, up)
    \/ \E u \in Users, up \in BOOLEAN : LoadOrCreateKeyPair(u, up)

SpecKeys == Init /\ [][NextKeys]_vars

(* ------------------------------- claims -------------------------------- *)
\* The content key a holder recovers from a metadata record.
ContentKey(meta, privateKey) ==
    unwrapKeyWithRSA(base64ToBuffer(meta.encryptedKey), privateKey)

\* The call has registered its share at the KMS in this step.
RegistersShare(c) == calls[c].pc = "rewrap" /\ calls'[c].pc = "perm"

\* C1: when shareFileAccess succeeds, the registry holds a record for the
\* guest, and that record unwrapped with the guest's private key gives the
\* content key the sharer's record unwraps to, which decrypts the stored
\* file to a plaintext.
C1_SharedKeyIsContentKey ==
    [][\A c \in CallIds :
          RegistersShare(c) =>
              LET f == calls[c].file
                  guest == RegistryGet(keyDB', f, calls[c].target)
                  ownerKey == ContentKey(calls[c].meta,
                                         userKeys[calls[c].sharer].privateKey)
              IN /\ guest # {}
                 /\ ~IsWrapFailure(ownerKey)
                 /\ \A w \in guest :
                       /\ unwrapKeyWithRSA(base64ToBuffer(w),
                              userKeys[calls[c].target].privateKey) = ownerKey
                       /\ decryptFile(disk[files[f].path],
                              [calls[c].meta EXCEPT !.encryptedKey = w],
                              userKeys[calls[c].target].privateKey) \in Plaintexts
      ]_vars

C1_Witness ==
    \E c \in CallIds :
        /\ calls[c].pc = "perm"
        /\ calls[c].targetMeta.encryptedKey
               \in RegistryGet(keyDB, calls[c].file, calls[c].target)

\* C2: a shareFile call that ended in an error has left no re-wrapped key
\* record of its own in the registry.
C2_FailedShareLeavesNothing ==
    \A c \in CallIds :
        calls[c].pc = "error" =>
            ~ \E e \in keyDB :
                  /\ e.fileId = calls[c].file
                  /\ e.wrappedKey = calls[c].targetMeta.encryptedKey

\* C4: when two share calls on one file for two different recipients have
\* both completed, each recipient has a record in the registry.
C4_ConcurrentSharesBothRegistered ==
    \A c1 \in CallIds, c2 \in CallIds :
        ( /\ calls[c1].pc = "done"
          /\ calls[c2].pc = "done"
          /\ calls[c1].file = calls[c2].file
          /\ calls[c1].target # calls[c2].target )
        => /\ RegistryGet(keyDB, calls[c1].file, calls[c1].target) # {}
           /\ RegistryGet(keyDB, calls[c2].file, calls[c2].target) # {}

SameShare(c1, c2) ==
    /\ calls[c1].sharer = calls[c2].sharer
    /\ calls[c1].file = calls[c2].file
    /\ calls[c1].target = calls[c2].target
    /\ calls[c1].permission = calls[c2].permission

\* C5: when a share is registered a second time with the same parameters,
\* the registry holds exactly one record for the recipient on the file, and
\* it unwraps with the recipient's private key to the file's content key.
C5_SecondShareLeavesOneRecord ==
    [][\A c \in CallIds, c0 \in CallIds :
          ( /\ c0 # c
            /\ RegistersShare(c)
            /\ calls[c0].pc = "done"
            /\ SameShare(c, c0) )
          => LET f == calls[c].file
                 t == calls[c].target
                 entries == {e \in keyDB' : e.fileId = f /\ t \in e.roles}
             IN /\ Cardinality(entries) = 1
                /\ \A e \in entries :
                      /\ unwrapKeyWithRSA(base64ToBuffer(e.wrappedKey),
                                          userKeys[t].privateKey)
                            = ContentKey(files[f].meta,
                                         userKeys[files[f].owner].privateKey)
                      /\ ~IsWrapFailure(
                             unwrapKeyWithRSA(base64ToBuffer(e.wrappedKey),
                                              userKeys[t].privateKey))
      ]_vars

C5_Witness ==
    \E c \in CallIds, c0 \in CallIds :
        /\ c0 # c
        /\ calls[c0].pc = "done"
        /\ calls[c].pc = "perm"
        /\ SameShare(c, c0)
        /\ calls[c].targetMeta.encryptedKey # calls[c0].targetMeta.encryptedKey

\* C6: the metadata a share makes for the recipient carries the sharer's iv,
\* tag, algorithm and keyEncryption and another wrapped key, and no step of a
\* share changes the stored ciphertext or the stored metadata of a file.
C6_ShareLeavesFileBody ==
    /\ [](\A c \in CallIds :
             calls[c].pc \in {"perm", "done"} =>
                 /\ calls[c].targetMeta.iv = calls[c].meta.iv
                 /\ calls[c].targetMeta.tag = calls[c].meta.tag
                 /\ calls[c].targetMeta.algorithm = calls[c].meta.algorithm
                 /\ calls[c].targetMeta.keyEncryption
                        = calls[c].meta.keyEncryption
                 /\ calls[c].targetMeta.encryptedKey
                        # calls[c].meta.encryptedKey
                 /\ files[calls[c].file].meta = calls[c].meta)
    /\ [][calls' # calls =>
             /\ disk' = disk
             /\ \A f \in FileIds : files'[f].meta = files[f].meta]_vars

C6_Witness ==
    \E c \in CallIds :
        /\ calls[c].pc = "done"
        /\ calls[c].targetMeta.iv = files[calls[c].file].meta.iv
        /\ calls[c].targetMeta.encryptedKey
               # files[calls[c].file].meta.encryptedKey

\* C7: a share that has re-wrapped the content key did so under the public
\* key of a certificate of the recipient that CertificateAuthority.verify
\* accepts.
C7_ShareUsesVerifiedCertificate ==
    \A c \in CallIds :
        calls[c].pc \in {"perm", "done"} =>
            \E cert \in certs :
                /\ cert.tbs.subject = calls[c].target
                /\ cert.tbs.publicKey = calls[c].publicKey
                /\ VerifyCertificate(cert, now)

\* C8: after shareFile has returned success, the file's permissions hold
\* the target user (readers for 'read', writers for 'write') and a download
\* request of the target user is served.
C8_ShareGrantsStoragePermission ==
    \A c \in CallIds :
        calls[c].pc = "done" =>
            /\ calls[c].permission = "read"
                   => calls[c].target \in files[calls[c].file].readers
            /\ calls[c].permission = "write"
                   => calls[c].target \in files[calls[c].file].writers
            /\ downloadFile(calls[c].target, calls[c].file, TRUE).status = 200

\* C9: a download by a user with whom the file has been shared, and whom the
\* file's permissions list, decrypts the file to its plaintext.  (The steps
\* that leave a client.downloadFile response and change neither the calls,
\* the files nor the clients' keys are the downloads.)
C9_RecipientDownloadDecrypts ==
    [][( /\ resp'.op = "client.downloadFile"
         /\ UNCHANGED <<calls, files, userKeys>>
         /\ resp'.user \in files[resp'.file].readers
                               \cup files[resp'.file].writers
         /\ \E c \in CallIds :
               /\ calls[c].pc = "done"
               /\ calls[c].file = resp'.file
               /\ calls[c].target = resp'.user )
       => /\ resp'.res.status = 200
          /\ resp'.res.data = Plain(disk[files[resp'.file].path].data)]_vars

\* C3: a register for one identity on a file leaves the record of every
\* other identity on that file as it was.
C3_PutLeavesOtherIdentities ==
    [][resp'.op = "register" =>
          \A b \in Users \ resp'.body.roles :
              RegistryGet(keyDB', resp'.file, b)
                  = RegistryGet(keyDB, resp'.file, b)]_vars

\* C10: on every download request that finds the file, the file is served
\* when the requester is its owner or in its readers or writers at that
\* time, and every other requester gets 403 'No permission to access this
\* file'.
C10_DownloadIffPermitted ==
    ( /\ resp.op = "download"
      /\ resp.res.status # 500
      /\ files[resp.file].exists )
    => LET file == files[resp.file]
           permitted == \/ resp.user = file.owner
                        \/ resp.user \in file.readers
                        \/ resp.user \in file.writers
       IN /\ permitted => /\ resp.res.status = 200
                          /\ resp.res.data = disk[file.path]
          /\ ~permitted => /\ resp.res.status = 403
                           /\ resp.res.message
                                  = "No permission to access this file"

C10_Witness ==
    /\ resp.op = "download"
    /\ resp.res.status = 403
    /\ resp.user = "bob"
    /\ files[resp.file].exists
    /\ files[resp.file].readers = {}
    /\ files[resp.file].writers = {}

\* C11: a delete request that finds the file and comes from a user other
\* than its owner, a reader or a writer included, is answered 403 'Only file
\* owner can delete the file' and leaves the file records and the stored
\* files as they were.
C11_OnlyOwnerDeletes ==
    [][( /\ resp'.op = "delete"
         /\ resp'.res.status # 500
         /\ files[resp'.file].exists
         /\ resp'.user # files[resp'.file].owner )
       => /\ resp'.res.status = 403
          /\ resp'.res.message = "Only file owner can delete the file"
          /\ files' = files
          /\ disk' = disk]_vars

C11_Witness ==
    /\ resp.op = "delete"
    /\ resp.res.status = 403
    /\ files[resp.file].exists
    /\ resp.user # files[resp.file].owner
    /\ resp.user \in files[resp.file].writers
    /\ disk[files[resp.file].path] # NoBlob

\* C12: a permission update that finds the file and is not cut short by a
\* database error sets, for the owner, readers and writers to the lists the
\* request gives (a list it does not give stays) and keeps the owner; for
\* every other user it is answered 403 'Only file owner can update
\* permissions' and leaves the file records as they were.
C12_OnlyOwnerUpdatesPermissions ==
    [][( /\ resp'.op = "permissions"
         /\ resp'.res.status # 500
         /\ files[resp'.file].exists )
       => LET f == resp'.file
              body == resp'.body
          IN IF resp'.user = files[f].owner
             THEN /\ resp'.res.status = 200
                  /\ "readers" \in DOMAIN body
                         => files'[f].readers = body.readers
                  /\ "writers" \in DOMAIN body
                         => files'[f].writers = body.writers
                  /\ "readers" \notin DOMAIN body
                         => files'[f].readers = files[f].readers
                  /\ "writers" \notin DOMAIN body
                         => files'[f].writers = files[f].writers
                  /\ files'[f].owner = files[f].owner
             ELSE /\ resp'.res.status = 403
                  /\ resp'.res.message
                         = "Only file owner can update permissions"
                  /\ files' = files]_vars

C12_Witness ==
    /\ resp.op = "permissions"
    /\ resp.res.status = 200
    /\ resp.user = files[resp.file].owner
    /\ resp.user # "bob"
    /\ "readers" \in DOMAIN resp.body
    /\ "writers" \in DOMAIN resp.body
    /\ resp.body.readers = {"bob"}
    /\ resp.body.writers = {}
    /\ files[resp.file].readers = {"bob"}
    /\ files[resp.file].writers = {}

\* C13: an upload answered 201 has created one file record, whose owner is
\* the uploading user and whose readers and writers are exactly that user,
\* and has left every other record alone; an upload request without a file
\* is answered 400 and leaves the file records as they were.
C13_UploadCreatesOwnedRecord ==
    [][resp'.op = "upload" =>
          /\ ~resp'.body.file => /\ resp'.res.status = 400
                                 /\ files' = files
          /\ resp'.res.status = 201 =>
                 \E f \in FileIds :
                     /\ ~files[f].exists
                     /\ files'[f].exists
                     /\ files'[f].owner = resp'.user
                     /\ files'[f].readers = {resp'.user}
                     /\ files'[f].writers = {resp'.user}
                     /\ \A g \in FileIds \ {f} : files'[g] = files[g]
      ]_vars

C13_Witness ==
    /\ resp.op = "upload"
    /\ resp.res.status = 201
    /\ \E f \in FileIds :
           /\ files[f].exists
           /\ files[f].owner = resp.user
           /\ files[f].readers = {resp.user}
           /\ files[f].writers = {resp.user}

\* C14: the first activation, with nothing persisted, generates a root key
\* pair, self-signs a CA certificate and persists both; every later
\* activation loads the persisted pair and writes nothing; so whenever the
\* server is Ready the key and certificate in use are those of the first
\* bootstrap, and activation never fails.
C14_CAStableAcrossRestarts ==
    /\ [](/\ ca.state \in {"Uninitialized", "Ready", "Stopped"}
          /\ ca.state = "Ready" =>
                 /\ ca.gens = 1
                 /\ ca.privateKey = caKeyPair(1).privateKey
                 /\ ca.certificate.tbs.publicKey = caKeyPair(1).publicKey
                 /\ ca.certificate.tbs.cA
                 /\ ca.certificate.signature
                        = Sign(ca.certificate.tbs, ca.privateKey)
                 /\ ca.keyFile = ca.privateKey
                 /\ ca.certFile = ca.certificate)
    /\ [][(ca.state # "Ready" /\ ca'.state = "Ready") =>
             IF ca.keyFile = NoKey /\ ca.certFile = NoCertificate
             THEN /\ ca.state = "Uninitialized"
                  /\ ca'.keyFile = caKeyPair(1).privateKey
                  /\ ca'.certFile = rootCertificate(caKeyPair(1), now)
             ELSE /\ ca'.keyFile = ca.keyFile
                  /\ ca'.certFile = ca.certFile
                  /\ ca'.privateKey = ca.keyFile
                  /\ ca'.certificate = ca.certFile]_vars

C14_Witness ==
    /\ ca.state = "Ready"
    /\ ca.activations = 3
    /\ ca.certificate.tbs.notBefore < now
    /\ ca.certificate = rootCertificate(caKeyPair(1), 1)

\* Persisted root material that is incomplete or does not parse.
CorruptMaterial ==
    /\ ca.keyFile # NoKey \/ ca.certFile # NoCertificate
    /\ \/ ca.keyFile \in {NoKey, GarbageKey}
       \/ ca.certFile \in {NoCertificate, GarbageCertificate}

\* C15: an activation that finds corrupt or incomplete root material, after
\* leaf certificates were issued, fails; it generates no root key pair and
\* leaves the persisted files as they are.
C15_CorruptMaterialFailsActivation ==
    [][( /\ ca'.activations = ca.activations + 1
         /\ CorruptMaterial
         /\ certs # {} )
       => /\ ca'.state = "Failed"
          /\ ca'.gens = ca.gens
          /\ ca'.keyFile = ca.keyFile
          /\ ca'.certFile = ca.certFile]_vars

\* The steps of POST /api/pki/register: the ones that answer a registration
\* and change neither the CA nor the time.
RegisterStep == resp'.op = "pki.register" /\ UNCHANGED <<ca, now>>

WellFormed(csr) == csrVerify(csr) /\ csr.publicKey # NoKey

\* C16: a registration issues a certificate, signed with the CA key, for a
\* request whose self-signature verifies and which carries a public key;
\* for any other request it answers with an error and issues nothing.
C16_OnlyVerifiedCsrsAreSigned ==
    [][RegisterStep =>
          LET csr == resp'.body
          IN /\ WellFormed(csr) =>
                    /\ resp'.res.status = 200
                    /\ \E cert \in certs' :
                           /\ cert.tbs.subject = csr.subject
                           /\ cert.tbs.publicKey = csr.publicKey
                           /\ cert.signature.by = ca.privateKey
             /\ ~WellFormed(csr) =>
                    /\ resp'.res.status = 400
                    /\ resp'.res.message \in {"CSR verification failed",
                                               "CSR missing publicKey"}
                    /\ certs' = certs]_vars

C16_Witness ==
    /\ resp.op = "pki.register"
    /\ resp.res.status = 400
    /\ resp.body.publicKey = UserKey("alice").publicKey
    /\ resp.body.signature.by = UserKey("bob").privateKey
    /\ certs # {}

\* A certificate with one of its fields changed after issuance.
Altered(cert) ==
    {[cert EXCEPT !.tbs.subject = "carol"],
     [cert EXCEPT !.tbs.publicKey = UserKey("carol").publicKey],
     [cert EXCEPT !.tbs.serialNumber = "0"],
     [cert EXCEPT !.tbs.notAfter = @ + 1],
     [cert EXCEPT !.tbs.cA = TRUE],
     [cert EXCEPT !.signature.by = UserKey("carol").privateKey]}

\* C17: a certificate issued for a well-formed request carries the request's
\* public key and subject and verifies under the key of the CA certificate
\* the ca-cert endpoint serves; with any field altered it does not verify.
C17_IssuedCertificateVerifies ==
    [][RegisterStep =>
          \A cert \in certs' \ certs :
              /\ cert.tbs.publicKey = resp'.body.publicKey
              /\ cert.tbs.subject = resp'.body.subject
              /\ VerifyCertificate(cert, now)
              /\ \A bad \in Altered(cert) : ~VerifyCertificate(bad, now)
      ]_vars

C17_Witness ==
    /\ resp.op = "pki.register"
    /\ resp.res.status = 200
    /\ \E cert \in certs :
           /\ cert.tbs.subject = resp.body.subject
           /\ cert.tbs.publicKey = resp.body.publicKey
           /\ ca.state = "Ready"
           /\ VerifyCertificate(cert, now)
           /\ ca.activations > 1

\* C18: no two certificates of the CA, the root certificate included, carry
\* the same serial number.
C18_SerialsUnique ==
    \A c1 \in certs \cup {ca.certFile}, c2 \in certs \cup {ca.certFile} :
        c1 # c2 => c1.tbs.serialNumber # c2.tbs.serialNumber

\* C19: no request a client sends while creating and registering a key pair
\* (generateAndRegisterKeyPair, loadOrCreateKeyPair) carries the private key.
CarriesPrivateKey(body) ==
    \/ "jwk" \in DOMAIN body /\ body.jwk[2][1] = "priv"
    \/ "publicKey" \in DOMAIN body /\ body.publicKey[1] = "priv"

C19_PrivateKeyStaysLocal ==
    resp.op \in {"generateAndRegisterKeyPair", "loadOrCreateKeyPair"}
        => ~CarriesPrivateKey(resp.body)

\* C20: across any sequence of encryptions (encryptFile of each variant and
\* the demo KMS encrypt) no two operations use the same content key or the
\* same nonce, and every key the demo KMS stores belongs to one encryption.
C20_FreshKeyAndNonce ==
    /\ \A i, j \in DOMAIN packets :
           i # j => /\ packets[i].cipher.key # packets[j].cipher.key
                    /\ packets[i].cipher.iv # packets[j].cipher.iv
    /\ \A e \in db :
           Cardinality({i \in DOMAIN packets :
                           /\ packets[i].cipher.key = e.key
                           /\ packets[i].cipher.iv = e.iv}) = 1

\* Every variant has encrypted, and one plaintext has been encrypted twice.
C20_Witness ==
    /\ {packets[i].by : i \in DOMAIN packets}
           = {"file-encryption.js", "index.ts", "cryptoModule.ts", "kms-server"}
    /\ \E i, j \in DOMAIN packets :
           i # j /\ packets[i].cipher.data = packets[j].cipher.data
    /\ db # {}

\* C21: decrypting the ciphertext and tag of encrypt(P, K, N) with the same
\* K and N returns the bytes of P, for encryptWithAESGCM/decryptWithAESGCM
\* and for aesGcmEncrypt/aesGcmDecrypt.
C21_AesRoundTrip ==
    (/\ resp.op \in {"decryptWithAESGCM", "aesGcmDecrypt"}
     /\ resp.body.t = NoTamper)
        => resp.res.out = BufferFrom(resp.body.plain)

\* A string has made the round trip and has come back as its bytes.
C21_Witness ==
    /\ resp.op = "decryptWithAESGCM"
    /\ resp.body.t = NoTamper
    /\ resp.body.plain \in Strings
    /\ resp.res.out \in Buffers

\* C22: when one bit of the ciphertext or of the tag has been changed,
\* decrypt ends in its authentication failure and returns no plaintext.
C22_TamperingFailsClosed ==
    /\ (resp.op = "decryptWithAESGCM" /\ resp.body.t # NoTamper)
           => resp.res.out = AuthenticationFailure
    /\ (resp.op = "aesGcmDecrypt" /\ resp.body.t # NoTamper)
           => resp.res.out = CryptoModuleError
    /\ (resp.op \in {"decryptWithAESGCM", "aesGcmDecrypt"}
            /\ resp.body.t # NoTamper)
           => resp.res.out \notin Buffers

\* The highest bit of a ciphertext was inverted and decryption has failed.
C22_Witness ==
    /\ resp.op = "decryptWithAESGCM"
    /\ resp.body.t = [part |-> "ciphertext", bit |-> MaxBits - 1]
    /\ resp.res.out = AuthenticationFailure

\* C23: unwrapping a wrapped key with the private key of the pair it was
\* wrapped for returns the key; with any other private key it ends in a
\* failure and returns no key.
C23_WrapRoundTrip ==
    (/\ resp.op \in {"unwrapKeyWithRSA", "unwrapAesKey"}
     /\ resp.body.damage = "none"
     /\ resp.body.priv \in RsaPrivateKeys)
        => IF KeyPairMatches(resp.body.priv, resp.body.pub)
           THEN resp.res.out = resp.body.aesKey
           ELSE /\ resp.res.out \in {WrapFailure, OperationError}
                /\ resp.res.out \notin AesKeys

\* A key wrapped for bob was unwrapped with carol's private key.
C23_Witness ==
    /\ resp.op = "unwrapKeyWithRSA"
    /\ resp.body.damage = "none"
    /\ resp.body.pub = generateRSAKeyPair("bob", 1).publicKey
    /\ resp.body.priv = generateRSAKeyPair("carol", 1).privateKey
    /\ resp.res.out = WrapFailure

\* C24: decryptFile of what encryptFile returned, with the private key of
\* the pair the file was encrypted for, returns the bytes of the plaintext,
\* for file-encryption.js and for the packets of index.ts (ciphertext and
\* tag split apart and joined again).
C24_FileRoundTrip ==
    (/\ resp.op \in {"decryptFile", "packetDecryptFile"}
     /\ KeyPairMatches(resp.body.priv, resp.body.pub))
        => resp.res.out = BufferFrom(resp.body.plain)

\* A packet of index.ts was decrypted by the holder of the key pair.
C24_Witness ==
    /\ resp.op = "packetDecryptFile"
    /\ KeyPairMatches(resp.body.priv, resp.body.pub)
    /\ resp.res.out \in Buffers

\* C25: a file record written from the metadata of encryptFile names both
\* algorithms it was written with: algorithm 'AES-256-GCM' and keyEncryption
\* 'RSA-OAEP'.
C25_AlgorithmTagsStored ==
    \A f \in FileIds :
        files[f].exists =>
            /\ files[f].meta.algorithm = "AES-256-GCM"
            /\ files[f].meta.keyEncryption = "RSA-OAEP"

\* C26: a lookup of an id that has no record (unwrap of the key API, GET
\* /key/:keyId and POST /decrypt of the demo KMS) is answered not found and
\* carries no wrapped key, raw key or plaintext; this includes an id whose
\* record was removed.
C26_NoRecordNoAccess ==
    [][/\ (resp'.op = "unwrap" /\ keyDBGet(keyDB, resp'.file) = {})
           => resp'.res = Reply(404, "missing key", [err |-> "missing key"])
       /\ (resp'.op \in {"key", "decrypt"}
              /\ {e \in db : e.id = resp'.body.keyId} = {})
           => resp'.res = Reply(404, "key not found", NoBlob)
      ]_vars

\* The key saved by the first encryption was removed and asked for again.
C26_Witness ==
    /\ drawn >= 3
    /\ resp.op = "key"
    /\ resp.body.keyId = randomUUID(3)
    /\ db # {}
    /\ \A e \in db : e.id # randomUUID(3)
    /\ resp.res.status = 404

\* C27: every failure of unwrapKeyWithRSA with a usable private key has one
\* constant value, whether the wrapped bytes are malformed, the padding is
\* bad or the private key is the wrong one.
C27_UnwrapFailureHasOneShape ==
    (/\ resp.op = "unwrapKeyWithRSA"
     /\ resp.body.priv \in RsaPrivateKeys
     /\ IsWrapFailure(resp.res.out))
        => resp.res.out = WrapFailure

\* C28: initialize registers a new key pair only for a user the KMS holds no
\* keys for: the public key the KMS holds for a user with keys never
\* changes, and no pair is generated for that user.
C28_InitializeKeepsExistingKeys ==
    [][\A u \in Users :
          kmsKeys[u] # NoKey =>
              /\ kmsKeys'[u] = kmsKeys[u]
              /\ keyGens'[u] = keyGens[u]
      ]_vars

\* C29: behind requireRole('*') a request with a valid, unexpired token
\* passes the guard whatever its role claim is and is answered by the
\* handler; a request without a valid token is answered 401.
C29_StarGuardIsBypass ==
    [][(resp'.op = "guarded.unwrap" /\ now' = now) =>
          LET tok == resp'.body.token
          IN IF tok # NoToken /\ tok.secret = SECRET /\ now < tok.exp
             THEN resp'.res = unwrap(resp'.file, tok.role)
             ELSE resp'.res = Reply(401, "unauth", [err |-> "unauth"])
      ]_vars

\* C30: a delete request of the owner, whatever fails in it, leaves either
\* the file record and the stored file both gone or both as they were.
C30_DeleteIsAllOrNothing ==
    [][( /\ resp'.op = "delete"
         /\ files[resp'.file].exists
         /\ resp'.user = files[resp'.file].owner )
       => LET f == resp'.file
              path == files[f].path
          IN \/ /\ ~files'[f].exists
                /\ disk'[path] = NoBlob
             \/ /\ files'[f] = files[f]
                /\ disk'[path] = disk[path]]_vars

====
